---- MODULE Spec2Model ----
(***************************************************************************)
(* Model of the scene playback engine of ai-cinema: the MovieScreen React  *)
(* component (src/components/MovieScreen.tsx).                             *)
(*                                                                         *)
(* React state is modelled by one variable per useState/useRef cell.  Each *)
(* action is one event-loop task (a click handler, a timer callback, a     *)
(* promise continuation, a media event) together with the re-render it     *)
(* causes and the effects that re-render runs: setState calls made in one  *)
(* task are batched, and an effect runs only when one of its dependencies  *)
(* changed.  Times are kept in milliseconds for timers and in half-seconds *)
(* (ticks) for the external track.                                         *)
(***************************************************************************)
EXTENDS Integers, Sequences, FiniteSets, Bags, TLC

----------------------------------------------------------------------------
(* Bounds of the model *)

\* pending setTimeout callbacks of the generated loop kept at once
MaxTimers == 2
\* prepareSceneAudio invocations in flight at once
MaxPrefetch == 2
\* onFinish invocations counted
MaxFinish == 2
\* 'ended' listeners registered on the audio element and counted
MaxListeners == 3
\* speak calls counted per visit of a step
SpeakCap == 2
\* audio items counted as sounding at once
MaxSounding == 2
\* Math.random() takes the values r / RandomGrain, r in 0..RandomGrain-1
RandomGrain == 6
\* scenes a movie has at most after scenes were added in the editor
MaxScenes == 3

----------------------------------------------------------------------------
(* Program constants *)

\* Math.max(2000, ...) floor of the synthetic delay, in ms
DelayFloor == 2000
\* text.length * 60
MsPerChar == 60
\* setTimeout(nextStep, 500) after a buffer or an utterance ended
InterLinePause == 500
\* scene.endTime undefined / scene.startTime undefined
NoTime == -1

Max(a, b) == IF a >= b THEN a ELSE b
Min(a, b) == IF a <= b THEN a ELSE b

----------------------------------------------------------------------------
(* Movies.  A scene is [id, descLen, script, startTime, endTime]: descLen   *)
(* is description.length, script the sequence of line.text.length.          *)

Sc(id, d, scr, st, en) ==
    [id |-> id, descLen |-> d, script |-> scr, startTime |-> st, endTime |-> en]

\* two scenes; the second has an empty narration text
MovieA ==
    [scenes |-> << Sc("s1", 40, <<100, 10>>, NoTime, NoTime),
                   Sc("s2", 0, <<10>>, NoTime, NoTime) >>]
\* one scene without dialogue
MovieB ==
    [scenes |-> << Sc("s1", 10, << >>, NoTime, NoTime) >>]
\* two scenes without dialogue
MovieD ==
    [scenes |-> << Sc("s1", 10, << >>, NoTime, NoTime),
                   Sc("s2", 10, << >>, NoTime, NoTime) >>]
\* three scenes for the sequencing of a longer movie
MovieC ==
    [scenes |-> << Sc("s1", 10, <<10>>, NoTime, NoTime),
                   Sc("s2", 100, << >>, NoTime, NoTime),
                   Sc("s3", 0, <<100, 10>>, NoTime, NoTime) >>]
\* movies whose scene ids contain the separators of the cache keys
KeyMovie(id1, id2) ==
    [scenes |-> << Sc(id1, 10, <<10, 10>>, NoTime, NoTime),
                   Sc(id2, 10, <<10>>, NoTime, NoTime) >>]
KeyMovies ==
    {KeyMovie("s", "s-line-0"), KeyMovie("s-narrator", "s"),
     KeyMovie("s-line", "s-line-0"), KeyMovie("", "-line-1")}

\* external track, intervals [0,5), [5,12), [12,20) seconds, in ticks of
\* half a second
TrackMovie ==
    [scenes |-> << Sc("t1", 10, <<10>>, 0, 10),
                   Sc("t2", 10, << >>, 10, 24),
                   Sc("t3", 10, <<10>>, 24, 40) >>]
\* external track whose last scene has no end timestamp
TrackMovieOpen ==
    [scenes |-> << Sc("t1", 10, <<10>>, 0, 10),
                   Sc("t2", 10, << >>, 10, NoTime) >>]

\* external track whose second scene has no end timestamp (a scene taken
\* over without one): [0,5), [5,...), [12,20) seconds
TrackMovieNoEnd ==
    [scenes |-> << Sc("t1", 10, <<10>>, 0, 10),
                   Sc("t2", 10, << >>, 10, NoTime),
                   Sc("t3", 10, <<10>>, 24, 40) >>]
\* external track that starts late and has a gap: [2.5,5), [7.5,12) seconds
TrackMovieGaps ==
    [scenes |-> << Sc("g1", 10, <<10>>, 5, 10),
                   Sc("g2", 10, << >>, 15, 24) >>]
\* the tracks whose timestamps do not tile the time axis
IrregularTracks == {TrackMovieNoEnd, TrackMovieGaps}

GenMovies == {MovieA, MovieB, MovieD}
AutoMovies == {MovieA, MovieB, MovieC, MovieD}
\* the movies played with an audio context that starts suspended as well as
\* running (the long movie is played with a running context only)
SuspendMovies == {MovieB, MovieD}
TrackMovies == {TrackMovie, TrackMovieOpen}

\* duration of the uploaded track, in ticks (21 s)
TrackLen == 42
\* the times at which timeupdate is sampled, in ticks:
\* 0, 2.5, 5, 7.5, 12, 19.5, 20, 20.5 seconds
SampleTimes == {0, 5, 10, 15, 24, 39, 40, 41}

----------------------------------------------------------------------------
VARIABLES
    movie,            \* props.movie
    audioMode,        \* movie.audioMode: "gemini" | "browser" | "custom"
    sceneIndex,       \* useState(0)
    scriptIndex,      \* useState(-2): -2 pre-roll, -1 narration, n line n
    isPlaying,        \* useState(false)
    currentLine,      \* useState(null): << >> or <<scene, line>>
    isNarrating,      \* useState(false)
    audioEnabled,     \* useState(true)
    isPreparingAudio, \* useState(false)
    audioCache,       \* audioCache.current: the set of keys that hold a buffer
    cached,           \* history: the steps <<scene, line>> a buffer was stored for
    overwritten,      \* history: a set() replaced the buffer of a stored key
    attempted,        \* history: the steps <<scene, line>> whose request resolved
    started,          \* history: the prepareSceneAudio call the latest task made
    activeSource,     \* activeSourceRef.current
    utterance,        \* the utterance window.speechSynthesis is speaking
    timers,           \* pending setTimeout(nextStep, ...) callbacks, a bag
    prefetch,         \* prepareSceneAudio invocations in flight
    ctxState,         \* audioCtxRef.current.state
    trackTime,        \* customAudioRef.current.currentTime, in ticks
    trackPlaying,     \* the audio element is playing
    endedListeners,   \* 'ended' listeners registered on the audio element
    finishCount,      \* number of onFinish() invocations
    sounding,         \* history: buffer sources and utterances that sound
    speaks,           \* history: speak calls since the cursor last changed
    lastSpeak,        \* history: what the latest speak call started
    prog,             \* history: cursor positions matched since (re)start
    bad,              \* history: the cursor left the expected sequence
    fromRestart,      \* history: the sequence was started by handleRestart
    lastOp,           \* history: the task that produced this state
    speechSynthesis,  \* window.speechSynthesis is defined
    configs,          \* App: characters (the CharacterConfig list)
    cast,             \* movie.scenes[i].characters and script[l].characterId
    voiceMap,         \* App: voiceMap, the voices prop of MovieScreen
    genStatus,        \* App: genState.status
    preGen,           \* generateMovie synthesizes the audio of the movie itself
    audioVoice,       \* history: the voices each speaker's audio was made with
    speechPc,         \* generateSpeech: "idle" | "calling" | "waiting" | "done"
    speechI,          \* generateSpeech: the loop variable i
    speechVoice,      \* generateSpeech: the voiceName argument
    speechLog,        \* history: the outcome of every generateContent call
    speechWaits,      \* history: the delays awaited, in ms
    speechResult,     \* what generateSpeech returned or threw
    pendingAdds,      \* SceneEditor: the movie.scenes captured by the
                      \* handleGenerateScene calls that await their scene
    lastEdit,         \* history: the latest call of an editing handler
    playingSceneId,   \* SceneEditor: useState(null), "" for null
    loadingAudioId,   \* SceneEditor: useState(null), "" for null
    previewRef,       \* SceneEditor: activeSourceRef.current
    previewStrays,    \* buffer sources that play and are held by no ref, a bag
    previewUtterance, \* the scene whose utterance is being spoken, "" for none
    previewPending,   \* generateSpeech calls of handlePlayDescription awaited
    previewEvents,    \* ended events of stopped items queued for delivery
    customAudioFile,  \* App: useState(null), the uploaded file
    audioDuration,    \* App: useState(0), in tenths of a second
    trimStart,        \* App: useState(0), in tenths of a second
    trimEnd,          \* App: useState(0), in tenths of a second
    pendingLookups,   \* getAudioDuration calls of handleAudioUpload awaited
    trimCall,         \* history: the arguments of the latest trimAudio call
    slides,           \* history: slider changes since the latest upload
    uploads           \* history: files uploaded

vars == << movie, audioMode, sceneIndex, scriptIndex, isPlaying, currentLine,
           isNarrating, audioEnabled, isPreparingAudio, audioCache, cached,
           overwritten, attempted, started, activeSource, utterance, timers, prefetch,
           ctxState, trackTime,
           trackPlaying, endedListeners, finishCount, sounding, speaks,
           lastSpeak, prog, bad, fromRestart, lastOp, speechSynthesis, configs,
           cast, voiceMap, genStatus, preGen, audioVoice,
           speechPc, speechI, speechVoice, speechLog, speechWaits, speechResult,
           pendingAdds, lastEdit, playingSceneId, loadingAudioId, previewRef,
           previewStrays, previewUtterance, previewPending, previewEvents,
           customAudioFile, audioDuration, trimStart, trimEnd, pendingLookups,
           trimCall, slides, uploads >>

\* the variables of the player, of the application and of generateSpeech
playerVars ==
    << movie, audioMode, sceneIndex, scriptIndex, isPlaying, currentLine,
       isNarrating, audioEnabled, isPreparingAudio, audioCache, cached,
       overwritten, attempted, started, activeSource, utterance, timers,
       prefetch, ctxState, trackTime, trackPlaying, endedListeners,
       finishCount, sounding, speaks, lastSpeak, prog, bad, fromRestart,
       lastOp, speechSynthesis >>
appVars == << configs, cast, voiceMap, genStatus, preGen, audioVoice >>
speechVars ==
    << speechPc, speechI, speechVoice, speechLog, speechWaits, speechResult >>
editorVars == << pendingAdds, lastEdit >>
previewVars ==
    << playingSceneId, loadingAudioId, previewRef, previewStrays,
       previewUtterance, previewPending, previewEvents >>
trimVars ==
    << customAudioFile, audioDuration, trimStart, trimEnd, pendingLookups,
       trimCall, slides, uploads >>
\* the variables outside the player and the generation of a movie
otherVars == << speechVars, editorVars, previewVars, trimVars >>

\* no prepareSceneAudio call
NoStart == [idx |-> -1, cont |-> "none", scene |-> -1, step |-> -2]

\* the mutable state as one record, for the operators that compute a task
\* (a task begins with no prepareSceneAudio call made)
St ==
    [sceneIndex |-> sceneIndex, scriptIndex |-> scriptIndex,
     isPlaying |-> isPlaying, currentLine |-> currentLine,
     isNarrating |-> isNarrating, audioEnabled |-> audioEnabled,
     isPreparingAudio |-> isPreparingAudio, audioCache |-> audioCache,
     cached |-> cached, overwritten |-> overwritten, attempted |-> attempted,
     started |-> NoStart,
     activeSource |-> activeSource, utterance |-> utterance,
     timers |-> timers, prefetch |-> prefetch, ctxState |-> ctxState,
     trackTime |-> trackTime, trackPlaying |-> trackPlaying,
     endedListeners |-> endedListeners, finishCount |-> finishCount,
     sounding |-> sounding, speaks |-> speaks, lastSpeak |-> lastSpeak, prog |-> prog, bad |-> bad,
     fromRestart |-> fromRestart]

NoLine == << >>
NoSource == [kind |-> "none", cur |-> FALSE, playing |-> FALSE]
NoUtterance == [kind |-> "none", cur |-> FALSE]
NoSpeak ==
    [scene |-> -1, line |-> -2, via |-> "none", delay |-> 0, enabled |-> TRUE,
     replaced |-> FALSE]

NumScenes == Len(movie.scenes)
\* movie.scenes[i], i counted from 0 as in the code
SceneAt(i) == movie.scenes[i + 1]
HasScene(i) == i >= 0 /\ i < NumScenes
ScriptLen(i) == Len(SceneAt(i).script)

----------------------------------------------------------------------------
(* Voice assignment (src/services/geminiService.ts).  A name is the         *)
(* sequence of its characters; a map is a function from keys to voices.     *)

MALE_VOICES == << "Puck", "Charon", "Fenrir" >>
FEMALE_VOICES == << "Kore", "Zephyr" >>
NARRATOR_VOICE == "Fenrir"

EmptyMap == [k \in {} |-> ""]

\* Map.set(k, v)
MapSet(m, k, v) ==
    [x \in (DOMAIN m) \cup {k} |-> IF x = k THEN v ELSE m[x]]

\* String.prototype.toLowerCase on the characters the names use; the
\* Cyrillic letters a and ya are written "cyr-a", "cyr-ya" ("CYR-A",
\* "CYR-YA" in upper case)
LowerChar(c) ==
    CASE c = "A" -> "a"
      [] c = "Y" -> "y"
      [] c = "CYR-A" -> "cyr-a"
      [] c = "CYR-YA" -> "cyr-ya"
      [] OTHER -> c

toLowerCase(name) == [i \in 1..Len(name) |-> LowerChar(name[i])]

endsWith(name, suffix) ==
    /\ Len(name) >= Len(suffix)
    /\ SubSeq(name, Len(name) - Len(suffix) + 1, Len(name)) = suffix

\* pool[Math.floor(Math.random() * pool.length)], Math.random() = r / RandomGrain
RandomOf(pool, r) == pool[((r * Len(pool)) \div RandomGrain) + 1]

\* mutant of guessVoice: the name is not lower-cased before its ending is
\* tested
guessVoiceNoLower(name, r) ==
    IF name = << >> THEN MALE_VOICES[1]
    ELSE IF \/ endsWith(name, << "cyr-a" >>) \/ endsWith(name, << "cyr-ya" >>)
            \/ endsWith(name, << "a" >>) \/ endsWith(name, << "y", "a" >>)
         THEN RandomOf(FEMALE_VOICES, r)
         ELSE RandomOf(MALE_VOICES, r)

\* guessVoice(name), r being the value Math.random() returns
guessVoice(name, r) ==
    IF name = << >> THEN MALE_VOICES[1]
    ELSE LET lower == toLowerCase(name)
         IN  IF \/ endsWith(lower, << "cyr-a" >>) \/ endsWith(lower, << "cyr-ya" >>)
                \/ endsWith(lower, << "a" >>) \/ endsWith(lower, << "y", "a" >>)
             THEN RandomOf(FEMALE_VOICES, r)
             ELSE RandomOf(MALE_VOICES, r)

\* configs.forEach(c => { if (c.voice) charMap.set(c.id, c.voice) })
RECURSIVE FromConfigs(_, _)
FromConfigs(m, cs) ==
    IF cs = << >> THEN m
    ELSE FromConfigs(IF Head(cs).voice # "" THEN MapSet(m, Head(cs).id, Head(cs).voice)
                     ELSE m,
                     Tail(cs))

\* the characters of all scenes, in scene order
RECURSIVE AllCharacters(_)
AllCharacters(scs) ==
    IF scs = << >> THEN << >> ELSE Head(scs).characters \o AllCharacters(Tail(scs))

\* movie.scenes.forEach(s => s.characters.forEach(c => { if (charMap.has(c.id))
\* return; charMap.set(c.id, guessVoice(c.name)) })); rnd gives the value of
\* Math.random() for every position of the list
RECURSIVE GuessAll(_, _, _)
GuessAll(m, chars, rnd) ==
    IF chars = << >> THEN m
    ELSE LET c == Head(chars)
         IN  GuessAll(IF c.id \in DOMAIN m THEN m
                      ELSE MapSet(m, c.id, guessVoice(c.name, rnd[Len(chars)])),
                      Tail(chars), rnd)

\* mutant of assignVoices: an explicit or guessed voice for the key
\* 'narrator' is kept
assignVoicesKeep(scs, cfgs, rnd) ==
    LET m == GuessAll(FromConfigs(EmptyMap, cfgs), AllCharacters(scs), rnd)
    IN  IF "narrator" \in DOMAIN m THEN m ELSE MapSet(m, "narrator", NARRATOR_VOICE)

\* assignVoices(movie, configs)
assignVoices(scs, cfgs, rnd) ==
    MapSet(GuessAll(FromConfigs(EmptyMap, cfgs), AllCharacters(scs), rnd),
           "narrator", NARRATOR_VOICE)

----------------------------------------------------------------------------
(* Pure helpers of the component *)

\* mutant of getAudioKey: the narration has no sentinel of its own, it takes
\* the key of line 0
getAudioKeyNoSentinel(sIdx, lIdx) ==
    IF lIdx = -1
    THEN SceneAt(sIdx).id \o "-line-" \o ToString(0)
    ELSE SceneAt(sIdx).id \o "-line-" \o ToString(lIdx)

\* getAudioKey: `${id}-narrator` for lIdx = -1, `${id}-line-${lIdx}` otherwise
getAudioKey(sIdx, lIdx) ==
    IF lIdx = -1
    THEN SceneAt(sIdx).id \o "-narrator"
    ELSE SceneAt(sIdx).id \o "-line-" \o ToString(lIdx)

\* mutant of Duration: the floor is forgotten
DurationNoFloor(textLen) == textLen * MsPerChar

\* Math.max(2000, text.length * 60)
Duration(textLen) == Max(DelayFloor, textLen * MsPerChar)

\* the cursor (sceneIndex, stepIndex) of a state record
Cursor(s) == << s.sceneIndex, s.scriptIndex >>

\* the cursor positions of a whole playback, in order: for every scene its
\* narration (-1), its lines 0..L-1 and scene-complete (L)
RECURSIVE ExpectedFrom(_)
ExpectedFrom(i) ==
    IF i >= NumScenes THEN << >>
    ELSE [k \in 1..(ScriptLen(i) + 2) |-> << i, k - 2 >>] \o ExpectedFrom(i + 1)
Expected == ExpectedFrom(0)

\* history: every pending completion now belongs to an abandoned step
StaleBag(b) ==
    LET T(k) == [kind |-> k, cur |-> TRUE]
        F(k) == [kind |-> k, cur |-> FALSE]
        ks == {t.kind : t \in BagToSet(b)}
    IN  [t \in {F(k) : k \in ks} |-> CopiesIn(T(t.kind), b) + CopiesIn(F(t.kind), b)]

StaleAll(s) ==
    [s EXCEPT !.timers = StaleBag(@),
              !.activeSource = [@ EXCEPT !.cur = FALSE],
              !.utterance = [@ EXCEPT !.cur = FALSE]]

\* setTimeout(nextStep, ...): nextStep is the narrator closure ("narr":
\* setIsNarrating(false); setScriptIndex(0)) or the dialogue closure ("dlg":
\* setScriptIndex(prev => prev + 1))
AddTimer(s, kind, cur) ==
    [s EXCEPT !.timers = @ (+) SetToBag({[kind |-> kind, cur |-> cur]})]

\* history bookkeeping of a cursor change between two renders
Book(old, new) ==
    IF Cursor(old) = Cursor(new) THEN new
    ELSE LET st == [StaleAll(new) EXCEPT !.speaks = 0, !.lastSpeak = NoSpeak]
         IN  IF st.bad THEN st
             ELSE IF st.prog < Len(Expected) /\ Expected[st.prog + 1] = Cursor(new)
                  THEN [st EXCEPT !.prog = @ + 1]
                  ELSE [st EXCEPT !.bad = TRUE]

----------------------------------------------------------------------------
(* The audio source strategies *)

\* speakBrowser: without window.speechSynthesis onEnd() is called at once,
\* which schedules nextStep; otherwise cancel() ends the utterance being
\* spoken, whose end/error handler schedules its nextStep, and the new
\* utterance is spoken
speakBrowser(s, kind) ==
    LET c == IF s.utterance.kind = "none" THEN s
             ELSE [AddTimer(s, s.utterance.kind, s.utterance.cur)
                      EXCEPT !.sounding = @ - 1]
    IN  IF ~speechSynthesis THEN AddTimer(s, kind, TRUE)
        ELSE [c EXCEPT !.utterance = [kind |-> kind, cur |-> TRUE],
                       !.sounding = Min(@ + 1, MaxSounding)]

\* mutant of playAudioBuffer: the source that is playing is not stopped
playAudioBufferNoStop(s, kind) ==
    [s EXCEPT !.activeSource = [kind |-> kind, cur |-> TRUE, playing |-> TRUE],
              !.sounding = Min(@ + 1, MaxSounding)]

\* playAudioBuffer: stop() of a playing source fires its onended, which
\* schedules its nextStep; then the new source starts
playAudioBuffer(s, kind) ==
    LET c == IF s.activeSource.playing
             THEN [AddTimer(s, s.activeSource.kind, s.activeSource.cur)
                      EXCEPT !.sounding = @ - 1]
             ELSE s
    IN  [c EXCEPT !.activeSource = [kind |-> kind, cur |-> TRUE, playing |-> TRUE],
                  !.sounding = Min(@ + 1, MaxSounding)]

\* mutant of handlePlaybackStep: with audio disabled no timer is scheduled
handlePlaybackStepNoFallback(s0, textLen, audioKey, kind) ==
    LET s == [StaleAll(s0) EXCEPT !.speaks = Min(@ + 1, SpeakCap)]
        rec(via, d) == [scene |-> s.sceneIndex, line |-> s.scriptIndex,
                        via |-> via, delay |-> d, enabled |-> s.audioEnabled,
                        replaced |-> \/ (via = "tts" /\ s.utterance.kind # "none")
                                     \/ (via = "buffer" /\ s.activeSource.playing)]
    IN  IF ~s.audioEnabled
        THEN [s EXCEPT !.lastSpeak = rec("timer", Duration(textLen))]
        ELSE IF audioMode = "browser"
        THEN [speakBrowser(s, kind) EXCEPT
                 !.lastSpeak = rec("tts", InterLinePause)]
        ELSE IF audioKey \in s.audioCache
        THEN [playAudioBuffer(s, kind) EXCEPT
                 !.lastSpeak = rec("buffer", InterLinePause)]
        ELSE [AddTimer(s, kind, TRUE) EXCEPT
                 !.lastSpeak = rec("timer", Duration(textLen))]

\* handlePlaybackStep(text, audioKey, nextStep)
handlePlaybackStep(s0, textLen, audioKey, kind) ==
    LET s == [StaleAll(s0) EXCEPT !.speaks = Min(@ + 1, SpeakCap)]
        rec(via, d) == [scene |-> s.sceneIndex, line |-> s.scriptIndex,
                        via |-> via, delay |-> d, enabled |-> s.audioEnabled,
                        replaced |-> \/ (via = "tts" /\ s.utterance.kind # "none")
                                     \/ (via = "buffer" /\ s.activeSource.playing)]
    IN  IF ~s.audioEnabled
        THEN [AddTimer(s, kind, TRUE) EXCEPT
                 !.lastSpeak = rec("timer", Duration(textLen))]
        ELSE IF audioMode = "browser"
        THEN [speakBrowser(s, kind) EXCEPT
                 !.lastSpeak = rec("tts", InterLinePause)]
        ELSE IF audioKey \in s.audioCache
        THEN [playAudioBuffer(s, kind) EXCEPT
                 !.lastSpeak = rec("buffer", InterLinePause)]
        ELSE [AddTimer(s, kind, TRUE) EXCEPT
                 !.lastSpeak = rec("timer", Duration(textLen))]

\* setIsPlaying(false); onFinish()
Finish(s) ==
    [s EXCEPT !.isPlaying = FALSE, !.finishCount = Min(@ + 1, MaxFinish)]

----------------------------------------------------------------------------
(* Rendering: the effects run after a commit, and prepareSceneAudio *)

RECURSIVE Render(_, _)
RECURSIVE GenEffect(_)
RECURSIVE StartPrefetch(_, _, _)
RECURSIVE EndPrefetch(_, _, _)
RECURSIVE LoopFrom(_, _, _, _)
RECURSIVE AfterResume(_, _, _)

\* the dependency list of the generated audio loop effect
GenDeps(s) ==
    << s.isPlaying, s.isPreparingAudio, s.sceneIndex, s.scriptIndex, s.audioEnabled >>

\* the custom audio sync effect: registers one more 'ended' listener (the
\* anonymous listener is never removed) and plays or pauses the track
CustomEffect(old, s) ==
    IF audioMode # "custom"
       \/ (old.isPlaying = s.isPlaying /\ old.sceneIndex = s.sceneIndex)
    THEN s
    ELSE [s EXCEPT !.endedListeners = Min(@ + 1, MaxListeners),
                   !.trackPlaying = s.isPlaying,
                   !.trackTime = IF s.isPlaying /\ @ = TrackLen THEN 0 ELSE @]

\* the .then continuation of a prepareSceneAudio call
ApplyCont(s, p) ==
    IF p.cont = "init"
    THEN [s EXCEPT !.isPlaying = TRUE, !.scriptIndex = -1]
    ELSE [s EXCEPT !.sceneIndex = p.idx, !.scriptIndex = -1]

\* prepareSceneAudio returns: setIsPreparingAudio(false), then the continuation
EndPrefetch(old, s, p) ==
    Render(old, ApplyCont([s EXCEPT !.isPreparingAudio = FALSE], p))

\* the for loop over s.script from lIdx = l0: skips cached keys, stops at the
\* first key to fetch
LoopFrom(old, s, p, l0) ==
    LET missing == {l \in l0..(ScriptLen(p.idx) - 1) :
                        getAudioKey(p.idx, l) \notin s.audioCache}
        first == CHOOSE l \in missing : \A m \in missing : l <= m
    IN  IF missing = {}
        THEN EndPrefetch(old, s, p)
        ELSE Render(old, [s EXCEPT !.prefetch =
                               Append(@, [p EXCEPT !.pc = "line", !.l = first])])

\* prepareSceneAudio after the audio context is running
AfterResume(old, s, p) ==
    LET s1 == [s EXCEPT !.isPreparingAudio = TRUE]
    IN  IF getAudioKey(p.idx, -1) \notin s.audioCache /\ SceneAt(p.idx).descLen > 0
        THEN Render(old, [s1 EXCEPT !.prefetch = Append(@, [p EXCEPT !.pc = "narr"])])
        ELSE LoopFrom(old, s1, p, 0)

\* prepareSceneAudio(idx).then(cont), called in state s0
StartPrefetch(s0, idx, cont) ==
    LET p == [idx |-> idx, cont |-> cont, pc |-> "resume", l |-> 0]
        s == [s0 EXCEPT !.started = [idx |-> idx, cont |-> cont,
                                     scene |-> s0.sceneIndex,
                                     step |-> s0.scriptIndex]]
    IN  IF ~HasScene(idx)
        THEN Render(s, ApplyCont(s, p))
        ELSE IF audioMode \in {"browser", "custom"}
        THEN EndPrefetch(s, s, p)
        ELSE IF s.ctxState = "suspended"
        THEN [s EXCEPT !.prefetch = Append(@, p)]
        ELSE AfterResume(s, s, p)

\* mutant of GenEffect: the end-of-scene branch advances without testing
\* that a next scene exists
GenEffectNoClamp(s) ==
    IF audioMode = "custom" THEN s
    ELSE IF ~s.isPlaying \/ s.isPreparingAudio THEN s
    ELSE IF ~HasScene(s.sceneIndex) THEN Finish(s)
    ELSE IF s.scriptIndex = -1
    THEN handlePlaybackStep(
             [s EXCEPT !.currentLine = NoLine, !.isNarrating = TRUE],
             SceneAt(s.sceneIndex).descLen,
             getAudioKey(s.sceneIndex, -1), "narr")
    ELSE IF s.scriptIndex >= 0 /\ s.scriptIndex < ScriptLen(s.sceneIndex)
    THEN handlePlaybackStep(
             [s EXCEPT !.currentLine = << s.sceneIndex, s.scriptIndex >>,
                       !.isNarrating = FALSE],
             SceneAt(s.sceneIndex).script[s.scriptIndex + 1],
             getAudioKey(s.sceneIndex, s.scriptIndex), "dlg")
    ELSE IF s.scriptIndex >= ScriptLen(s.sceneIndex)
    THEN LET c == [s EXCEPT !.currentLine = NoLine]
         IN  StartPrefetch(c, s.sceneIndex + 1, "next")
    ELSE s

\* mutant of GenEffect: the next scene's prefetch is started together with
\* the speak of the scene's last line
GenEffectEager(s) ==
    IF audioMode = "custom" THEN s
    ELSE IF ~s.isPlaying \/ s.isPreparingAudio THEN s
    ELSE IF ~HasScene(s.sceneIndex) THEN Finish(s)
    ELSE IF s.scriptIndex = -1
    THEN handlePlaybackStep(
             [s EXCEPT !.currentLine = NoLine, !.isNarrating = TRUE],
             SceneAt(s.sceneIndex).descLen,
             getAudioKey(s.sceneIndex, -1), "narr")
    ELSE IF s.scriptIndex >= 0 /\ s.scriptIndex < ScriptLen(s.sceneIndex)
    THEN LET h == handlePlaybackStep(
                      [s EXCEPT !.currentLine = << s.sceneIndex, s.scriptIndex >>,
                                !.isNarrating = FALSE],
                      SceneAt(s.sceneIndex).script[s.scriptIndex + 1],
                      getAudioKey(s.sceneIndex, s.scriptIndex), "dlg")
         IN  IF s.scriptIndex = ScriptLen(s.sceneIndex) - 1
                /\ s.sceneIndex < NumScenes - 1
             THEN StartPrefetch(h, s.sceneIndex + 1, "next")
             ELSE h
    ELSE IF s.scriptIndex >= ScriptLen(s.sceneIndex)
    THEN LET c == [s EXCEPT !.currentLine = NoLine]
         IN  IF s.sceneIndex < NumScenes - 1
             THEN StartPrefetch(c, s.sceneIndex + 1, "next")
             ELSE Finish(c)
    ELSE s

\* mutant of GenEffect: the loop does not return at once in external-track
\* mode
GenEffectAllModes(s) ==
    IF ~s.isPlaying \/ s.isPreparingAudio THEN s
    ELSE IF ~HasScene(s.sceneIndex) THEN Finish(s)
    ELSE IF s.scriptIndex = -1
    THEN handlePlaybackStep(
             [s EXCEPT !.currentLine = NoLine, !.isNarrating = TRUE],
             SceneAt(s.sceneIndex).descLen,
             getAudioKey(s.sceneIndex, -1), "narr")
    ELSE IF s.scriptIndex >= 0 /\ s.scriptIndex < ScriptLen(s.sceneIndex)
    THEN handlePlaybackStep(
             [s EXCEPT !.currentLine = << s.sceneIndex, s.scriptIndex >>,
                       !.isNarrating = FALSE],
             SceneAt(s.sceneIndex).script[s.scriptIndex + 1],
             getAudioKey(s.sceneIndex, s.scriptIndex), "dlg")
    ELSE IF s.scriptIndex >= ScriptLen(s.sceneIndex)
    THEN LET c == [s EXCEPT !.currentLine = NoLine]
         IN  IF s.sceneIndex < NumScenes - 1
             THEN StartPrefetch(c, s.sceneIndex + 1, "next")
             ELSE Finish(c)
    ELSE s

\* the generated audio loop effect
GenEffect(s) ==
    IF audioMode = "custom" THEN s
    ELSE IF ~s.isPlaying \/ s.isPreparingAudio THEN s
    ELSE IF ~HasScene(s.sceneIndex) THEN Finish(s)
    ELSE IF s.scriptIndex = -1
    THEN handlePlaybackStep(
             [s EXCEPT !.currentLine = NoLine, !.isNarrating = TRUE],
             SceneAt(s.sceneIndex).descLen,
             getAudioKey(s.sceneIndex, -1), "narr")
    ELSE IF s.scriptIndex >= 0 /\ s.scriptIndex < ScriptLen(s.sceneIndex)
    THEN handlePlaybackStep(
             [s EXCEPT !.currentLine = << s.sceneIndex, s.scriptIndex >>,
                       !.isNarrating = FALSE],
             SceneAt(s.sceneIndex).script[s.scriptIndex + 1],
             getAudioKey(s.sceneIndex, s.scriptIndex), "dlg")
    ELSE IF s.scriptIndex >= ScriptLen(s.sceneIndex)
    THEN LET c == [s EXCEPT !.currentLine = NoLine]
         IN  IF s.sceneIndex < NumScenes - 1
             THEN StartPrefetch(c, s.sceneIndex + 1, "next")
             ELSE Finish(c)
    ELSE s

\* a commit: the effects whose dependencies changed run on the new state
Render(old, new) ==
    LET b == Book(old, new)
    IN  IF GenDeps(old) = GenDeps(new) THEN b
        ELSE GenEffect(CustomEffect(old, b))

----------------------------------------------------------------------------
(* Initial states: the component after its mount effects *)

Unmounted ==
    [sceneIndex |-> 0, scriptIndex |-> -2, isPlaying |-> FALSE,
     currentLine |-> NoLine, isNarrating |-> FALSE, audioEnabled |-> TRUE,
     isPreparingAudio |-> FALSE, audioCache |-> {}, cached |-> {},
     overwritten |-> FALSE, attempted |-> {}, started |-> NoStart,
     activeSource |-> NoSource,
     utterance |-> NoUtterance, timers |-> EmptyBag, prefetch |-> << >>,
     ctxState |-> "none", trackTime |-> 0, trackPlaying |-> FALSE,
     endedListeners |-> 0, finishCount |-> 0, sounding |-> 0, speaks |-> 0,
     lastSpeak |-> NoSpeak, prog |-> 0, bad |-> FALSE, fromRestart |-> FALSE]

\* the initial load effect, after the first run of the other effects
Mounted(ctx) ==
    LET s0 == [Unmounted EXCEPT !.ctxState = ctx]
    IN  IF audioMode = "custom"
        THEN LET s1 == [s0 EXCEPT !.endedListeners = 1]
             IN  Render(s1, [s1 EXCEPT !.isPlaying = TRUE])
        ELSE StartPrefetch(s0, 0, "init")

HasState(r) ==
    /\ sceneIndex = r.sceneIndex
    /\ scriptIndex = r.scriptIndex
    /\ isPlaying = r.isPlaying
    /\ currentLine = r.currentLine
    /\ isNarrating = r.isNarrating
    /\ audioEnabled = r.audioEnabled
    /\ isPreparingAudio = r.isPreparingAudio
    /\ audioCache = r.audioCache
    /\ cached = r.cached
    /\ overwritten = r.overwritten
    /\ attempted = r.attempted
    /\ started = r.started
    /\ activeSource = r.activeSource
    /\ utterance = r.utterance
    /\ timers = r.timers
    /\ prefetch = r.prefetch
    /\ ctxState = r.ctxState
    /\ trackTime = r.trackTime
    /\ trackPlaying = r.trackPlaying
    /\ endedListeners = r.endedListeners
    /\ finishCount = r.finishCount
    /\ sounding = r.sounding
    /\ speaks = r.speaks
    /\ lastSpeak = r.lastSpeak
    /\ prog = r.prog
    /\ bad = r.bad
    /\ fromRestart = r.fromRestart

\* new Ctx({sampleRate: 24000}) in gemini mode: the browser's autoplay policy
\* decides whether the context starts suspended
CtxStates(suspendable) ==
    IF audioMode # "gemini" THEN {"none"}
    ELSE IF movie \in suspendable THEN {"suspended", "running"}
    ELSE {"running"}

\* the platform has a speech synthesizer or not; the player is run without
\* one in on-device mode
SynthStates ==
    IF audioMode = "browser" THEN BOOLEAN ELSE {TRUE}

\* no generateSpeech call is observed
SpeechIdle ==
    /\ speechPc = "idle"
    /\ speechI = 0
    /\ speechVoice = ""
    /\ speechLog = << >>
    /\ speechWaits = << >>
    /\ speechResult = "none"

\* no editing handler was called
NoEdit == [op |-> "none", index |-> -1, direction |-> "none", before |-> << >>]

EditorIdle ==
    /\ pendingAdds = << >>
    /\ lastEdit = NoEdit

\* no buffer source was created for the preview
NoPreviewSource == [id |-> "", playing |-> FALSE]

PreviewIdle ==
    /\ playingSceneId = ""
    /\ loadingAudioId = ""
    /\ previewRef = NoPreviewSource
    /\ previewStrays = EmptyBag
    /\ previewUtterance = ""
    /\ previewPending = EmptyBag
    /\ previewEvents = 0

\* customAudioFile === null, and no trimAudio call
NoFile == [name |-> "", duration |-> 0, decodes |-> FALSE]
NoTrimCall == [start |-> 0, end |-> 0, result |-> "none"]

TrimIdle ==
    /\ customAudioFile = NoFile
    /\ audioDuration = 0
    /\ trimStart = 0
    /\ trimEnd = 0
    /\ pendingLookups = << >>
    /\ trimCall = NoTrimCall
    /\ slides = 0
    /\ uploads = 0

\* the components that are not run
OthersIdle ==
    /\ SpeechIdle
    /\ EditorIdle
    /\ PreviewIdle
    /\ TrimIdle

\* the player specifications play a movie without characters, whose voice
\* map holds the narrator only
PlayerApp ==
    /\ configs = << >>
    /\ cast = << >>
    /\ voiceMap = assignVoices(<< >>, << >>, << >>)
    /\ genStatus = "playing"
    /\ preGen = FALSE
    /\ audioVoice = EmptyMap

InitWith(movies, modes, suspendable) ==
    /\ audioMode \in modes
    /\ movie \in (IF audioMode = "custom" THEN TrackMovies ELSE movies)
    /\ speechSynthesis \in SynthStates
    /\ \E ctx \in CtxStates(suspendable) : HasState(Mounted(ctx))
    /\ lastOp = "other"
    /\ PlayerApp
    /\ OthersIdle

Init == InitWith(GenMovies, {"gemini", "browser", "custom"}, SuspendMovies)

\* the task's result r becomes the next state
Commit(r, op) ==
    /\ BagCardinality(r.timers) <= MaxTimers
    /\ Len(r.prefetch) <= MaxPrefetch
    /\ sceneIndex' = r.sceneIndex
    /\ scriptIndex' = r.scriptIndex
    /\ isPlaying' = r.isPlaying
    /\ currentLine' = r.currentLine
    /\ isNarrating' = r.isNarrating
    /\ audioEnabled' = r.audioEnabled
    /\ isPreparingAudio' = r.isPreparingAudio
    /\ audioCache' = r.audioCache
    /\ cached' = r.cached
    /\ overwritten' = r.overwritten
    /\ attempted' = r.attempted
    /\ started' = r.started
    /\ activeSource' = r.activeSource
    /\ utterance' = r.utterance
    /\ timers' = r.timers
    /\ prefetch' = r.prefetch
    /\ ctxState' = r.ctxState
    /\ trackTime' = r.trackTime
    /\ trackPlaying' = r.trackPlaying
    /\ endedListeners' = r.endedListeners
    /\ finishCount' = r.finishCount
    /\ sounding' = r.sounding
    /\ speaks' = r.speaks
    /\ lastSpeak' = r.lastSpeak
    /\ prog' = r.prog
    /\ bad' = r.bad
    /\ fromRestart' = r.fromRestart
    /\ lastOp' = op
    /\ UNCHANGED << movie, audioMode, speechSynthesis, configs, cast, voiceMap,
                    genStatus, preGen, audioVoice >>
    /\ UNCHANGED otherVars

----------------------------------------------------------------------------
(* Tasks of the generated and on-device modes *)

RemoveAt(seq, i) == SubSeq(seq, 1, i - 1) \o SubSeq(seq, i + 1, Len(seq))

\* mutant of nextStep: the dialogue closure skips a line
nextStepSkip(s, kind) ==
    IF kind = "narr"
    THEN [s EXCEPT !.isNarrating = FALSE, !.scriptIndex = 0]
    ELSE [s EXCEPT !.scriptIndex = @ + 2]

\* a pending setTimeout fires: the narrator closure or the dialogue closure
nextStep(s, kind) ==
    IF kind = "narr"
    THEN [s EXCEPT !.isNarrating = FALSE, !.scriptIndex = 0]
    ELSE [s EXCEPT !.scriptIndex = @ + 1]

TimerFire ==
    \E t \in BagToSet(timers) :
        LET s1 == [St EXCEPT !.timers = @ (-) SetToBag({t})]
            r == Render(St, nextStep(s1, t.kind))
        IN  Commit(r, IF t.cur THEN "timerCur" ELSE "timerStale")

\* source.onended after the buffer played to its end
BufferEnded ==
    /\ activeSource.playing
    /\ LET s1 == [St EXCEPT !.activeSource = [@ EXCEPT !.playing = FALSE],
                            !.sounding = @ - 1]
       IN  Commit(AddTimer(s1, activeSource.kind, activeSource.cur), "other")

\* utterance.onend / utterance.onerror
UtteranceEnded ==
    /\ utterance.kind # "none"
    /\ LET s1 == [St EXCEPT !.utterance = NoUtterance, !.sounding = @ - 1]
       IN  Commit(AddTimer(s1, utterance.kind, utterance.cur), "other")

\* audioCtxRef.current.resume() resolves inside prepareSceneAudio
ResumeResolved ==
    \E i \in 1..Len(prefetch) :
        /\ prefetch[i].pc = "resume"
        /\ LET s1 == [St EXCEPT !.prefetch = RemoveAt(@, i), !.ctxState = "running"]
           IN  Commit(AfterResume(St, s1, prefetch[i]), "other")

\* mutant of FetchResolved: an absent result is fatal to prepareSceneAudio,
\* as a payload of the narration that does not decode is
FetchResolvedAbsentFatal(outcomes) ==
    \E i \in 1..Len(prefetch), out \in outcomes :
        LET p == prefetch[i]
            l == IF p.pc = "narr" THEN -1 ELSE p.l
            s1 == [St EXCEPT !.prefetch = RemoveAt(@, i),
                             !.attempted = @ \cup {<< p.idx, l >>}]
            key == getAudioKey(p.idx, l)
            s2 == IF out = "ok"
                  THEN [s1 EXCEPT !.audioCache = @ \cup {key},
                                  !.cached = @ \cup {<< p.idx, l >>},
                                  !.overwritten = @ \/ key \in s1.audioCache]
                  ELSE s1
        IN  /\ p.pc \in {"narr", "line"}
            /\ IF out \in {"malformed", "absent"}
               THEN Commit(s1, "other")
               ELSE IF p.pc = "narr"
               THEN Commit(LoopFrom(St, s2, p, 0), "other")
               ELSE Commit([s2 EXCEPT !.prefetch = Append(@, [p EXCEPT !.pc = "delay"])],
                           "other")

\* generateSpeech resolves: "ok" (a payload that decodes), "absent" (null) or
\* "malformed" (a payload whose decoding throws)
FetchResolved(outcomes) ==
    \E i \in 1..Len(prefetch), out \in outcomes :
        LET p == prefetch[i]
            l == IF p.pc = "narr" THEN -1 ELSE p.l
            s1 == [St EXCEPT !.prefetch = RemoveAt(@, i),
                             !.attempted = @ \cup {<< p.idx, l >>}]
            key == getAudioKey(p.idx, l)
            s2 == IF out = "ok"
                  THEN [s1 EXCEPT !.audioCache = @ \cup {key},
                                  !.cached = @ \cup {<< p.idx, l >>},
                                  !.overwritten = @ \/ key \in s1.audioCache]
                  ELSE s1
        IN  /\ p.pc \in {"narr", "line"}
            /\ IF p.pc = "narr"
               THEN IF out = "malformed"
                    THEN Commit(s1, "other")
                    ELSE Commit(LoopFrom(St, s2, p, 0), "other")
               ELSE Commit([s2 EXCEPT !.prefetch = Append(@, [p EXCEPT !.pc = "delay"])],
                           "other")

\* the 800 ms pause after a line's request
DelayElapsed ==
    \E i \in 1..Len(prefetch) :
        /\ prefetch[i].pc = "delay"
        /\ LET s1 == [St EXCEPT !.prefetch = RemoveAt(@, i)]
           IN  Commit(LoopFrom(St, s1, prefetch[i], prefetch[i].l + 1), "other")

----------------------------------------------------------------------------
(* The controls *)

\* the play/pause button: setIsPlaying(!isPlaying)
TogglePlay ==
    \E r \in {Render(St, [St EXCEPT !.isPlaying = ~@])} :
        Commit(r, IF isPlaying THEN "pause" ELSE "other")

\* the audio button: setAudioEnabled(!audioEnabled)
ToggleAudio ==
    \E r \in {Render(St, [St EXCEPT !.audioEnabled = ~@])} :
        Commit(r, "other")

\* handleRestart: window.speechSynthesis.cancel() throws a TypeError when
\* window.speechSynthesis is undefined, which ends the handler before its
\* setState calls
handleRestart(s) ==
    LET s1 == StaleAll(s)
        s2 == IF s1.activeSource.playing
              THEN AddTimer([s1 EXCEPT !.activeSource = [@ EXCEPT !.playing = FALSE],
                                       !.sounding = @ - 1],
                            s1.activeSource.kind, FALSE)
              ELSE s1
        s3 == IF audioMode = "custom"
              THEN [s2 EXCEPT !.trackTime = 0, !.trackPlaying = TRUE]
              ELSE s2
        s4 == IF s3.utterance.kind # "none"
              THEN AddTimer([s3 EXCEPT !.utterance = NoUtterance,
                                       !.sounding = @ - 1],
                            s3.utterance.kind, FALSE)
              ELSE s3
        s5 == [s4 EXCEPT !.sceneIndex = 0, !.scriptIndex = -1, !.isPlaying = TRUE,
                         !.speaks = 0, !.lastSpeak = NoSpeak, !.prog = 0,
                         !.bad = FALSE,
                         !.fromRestart = TRUE]
    IN  IF ~speechSynthesis
        THEN (IF audioMode = "custom" THEN [s EXCEPT !.trackTime = 0, !.trackPlaying = TRUE]
              ELSE s)
        ELSE [Render(s, s5) EXCEPT !.prog = Max(@, 1)]

Restart ==
    \E r \in {handleRestart(St)} :
        Commit(r, "restart")

----------------------------------------------------------------------------
(* Tasks of the external-track mode *)

\* mutant of ActiveIndex: the interval is closed at its end (t <= end)
ActiveIndexClosed(t) ==
    LET hit(i) == /\ t >= (IF SceneAt(i).startTime = NoTime THEN 0
                           ELSE SceneAt(i).startTime)
                  /\ (SceneAt(i).endTime = NoTime \/ t <= SceneAt(i).endTime)
        hits == {i \in 0..(NumScenes - 1) : hit(i)}
    IN  IF hits = {} THEN -1 ELSE CHOOSE i \in hits : \A j \in hits : i <= j

\* mutant of ActiveIndex: a missing end time is taken as 0 (end ?? 0)
ActiveIndexEndZero(t) ==
    LET hit(i) == /\ t >= (IF SceneAt(i).startTime = NoTime THEN 0
                           ELSE SceneAt(i).startTime)
                  /\ t < (IF SceneAt(i).endTime = NoTime THEN 0
                          ELSE SceneAt(i).endTime)
        hits == {i \in 0..(NumScenes - 1) : hit(i)}
    IN  IF hits = {} THEN -1 ELSE CHOOSE i \in hits : \A j \in hits : i <= j

\* movie.scenes.findIndex(s => t >= (s.startTime ?? 0) && t < (s.endTime ?? Infinity))
ActiveIndex(t) ==
    LET hit(i) == /\ t >= (IF SceneAt(i).startTime = NoTime THEN 0
                           ELSE SceneAt(i).startTime)
                  /\ (SceneAt(i).endTime = NoTime \/ t < SceneAt(i).endTime)
        hits == {i \in 0..(NumScenes - 1) : hit(i)}
    IN  IF hits = {} THEN -1 ELSE CHOOSE i \in hits : \A j \in hits : i <= j

\* mutant of PastLastEnd: the end itself is not past the end (t > end)
PastLastEndStrict(t) ==
    LET e == SceneAt(NumScenes - 1).endTime
    IN  e # NoTime /\ e # 0 /\ t > e

\* mutant of PastLastEnd: a missing end time is taken as 0
\* (t >= (lastScene.endTime ?? 0))
PastLastEndDefaulted(t) ==
    LET e == SceneAt(NumScenes - 1).endTime
    IN  t >= (IF e = NoTime THEN 0 ELSE e)

\* lastScene.endTime && t >= lastScene.endTime
PastLastEnd(t) ==
    LET e == SceneAt(NumScenes - 1).endTime
    IN  e # NoTime /\ e # 0 /\ t >= e

\* mutant of handleTimeUpdate: the result of findIndex is not tested against
\* -1
handleTimeUpdateNoGuard(s, t) ==
    LET a == ActiveIndex(t)
        s1 == IF a # s.sceneIndex THEN [s EXCEPT !.sceneIndex = a] ELSE s
    IN  IF PastLastEnd(t) THEN Finish(s1) ELSE s1

\* handleTimeUpdate of the custom audio sync effect, t = audio.currentTime
handleTimeUpdate(s, t) ==
    LET a == ActiveIndex(t)
        s1 == IF a # -1 /\ a # s.sceneIndex THEN [s EXCEPT !.sceneIndex = a] ELSE s
    IN  IF PastLastEnd(t) THEN Finish(s1) ELSE s1

\* a 'timeupdate' event of the playing track at time t
TimeUpdate ==
    /\ audioMode = "custom"
    /\ trackPlaying
    /\ \E t \in SampleTimes :
           /\ t >= trackTime
           /\ LET s1 == [St EXCEPT !.trackTime = t]
              IN  Commit(Render(St, handleTimeUpdate(s1, t)), "timeUpdate")

\* the 'ended' event: every registered listener runs
\* setIsPlaying(false); onFinish()
TrackEnded ==
    /\ audioMode = "custom"
    /\ trackPlaying
    /\ LET s1 == [St EXCEPT !.trackTime = TrackLen, !.trackPlaying = FALSE,
                            !.isPlaying = FALSE,
                            !.finishCount = Min(@ + endedListeners, MaxFinish)]
       IN  Commit(Render(St, s1), "ended")

----------------------------------------------------------------------------
(* The application around the player (src/App.tsx, SceneEditor.tsx): the    *)
(* generation of a movie, the editor and the voices the audio is made with. *)
(* cast is the movie seen as its characters: for every scene the list       *)
(* scene.characters and the characterId of every script line.               *)

Ch(id, name) == [id |-> id, name |-> name]
CastScene(chars, speakers) == [characters |-> chars, speakers |-> speakers]
Cfg(id, voice) == [id |-> id, voice |-> voice]

Ivan == << "I", "v", "a", "n" >>
Anna == << "A", "n", "n", "A" >>
Olya == << "O", "l", "CYR-YA" >>

\* a character present in two scenes (under another name the second time)
CastA ==
    << CastScene(<< Ch("ivan", Ivan), Ch("anna", Anna) >>, << "ivan", "anna" >>),
       CastScene(<< Ch("anna", Ivan) >>, << "anna" >>) >>
\* a character whose id is the reserved key, a character without a name,
\* and a line spoken by an id that is in no scene's character list
CastB ==
    << CastScene(<< Ch("narrator", Olya), Ch("x", << >>) >>,
                 << "narrator", "ghost" >>) >>
Casts == {CastA, CastB}

\* the CharacterConfig lists: none, an explicit voice, an explicit voice for
\* the reserved key
ConfigLists ==
    {<< >>, << Cfg("anna", "Zephyr") >>,
     << Cfg("ivan", ""), Cfg("narrator", "Kore") >>}

\* the script of a scene added in the editor (its character list is empty)
NewSceneSpeakers == {<< "anna" >>, << "ghost" >>}

\* the values Math.random() takes during one run of assignVoices
Randoms(scs) == [1..Len(AllCharacters(scs)) -> 0..(RandomGrain - 1)]

\* voices.get('narrator') || 'Fenrir'
NarratorVoiceOf(voices) ==
    IF "narrator" \in DOMAIN voices THEN voices["narrator"] ELSE "Fenrir"

\* voices.get(line.characterId) || 'Puck'
LineVoiceOf(voices, id) ==
    IF id \in DOMAIN voices THEN voices[id] ELSE "Puck"

\* history: the audio of key id was synthesized with voice v
AddVoice(av, id, v) ==
    [x \in (DOMAIN av) \cup {id} |->
        IF x = id THEN (IF id \in DOMAIN av THEN av[id] ELSE {}) \cup {v}
        ELSE av[x]]

Speakers(scs) ==
    UNION {{scs[i].speakers[l] : l \in 1..Len(scs[i].speakers)} : i \in 1..Len(scs)}

\* enrichScenesWithAudio(movie, voices): every narration and every line is
\* synthesized with the voice the given map holds
enrichScenesWithAudio(scs, voices) ==
    [id \in Speakers(scs) \cup {"narrator"} |->
        IF id = "narrator"
        THEN {NarratorVoiceOf(voices)}
               \cup (IF id \in Speakers(scs) THEN {LineVoiceOf(voices, id)} ELSE {})
        ELSE {LineVoiceOf(voices, id)}]

PlayerUnchanged ==
    UNCHANGED << playerVars, otherVars >>

\* handleGenerate up to its await: generateMovie builds the movie; the build
\* that synthesizes the audio itself assigns the voices for it
generateMovie ==
    /\ genStatus = "idle"
    /\ genStatus' = "generating"
    /\ IF preGen
       THEN \E rnd \in Randoms(cast) :
                audioVoice' = enrichScenesWithAudio(cast, assignVoices(cast, configs, rnd))
       ELSE audioVoice' = audioVoice
    /\ UNCHANGED << configs, cast, voiceMap, preGen >>
    /\ PlayerUnchanged

\* handleGenerate after the await: assignVoices, setMovie, setVoiceMap,
\* setGenState playing
handleGenerate ==
    /\ genStatus = "generating"
    /\ \E rnd \in Randoms(cast) : voiceMap' = assignVoices(cast, configs, rnd)
    /\ genStatus' = "playing"
    /\ UNCHANGED << configs, cast, preGen, audioVoice >>
    /\ PlayerUnchanged

\* MovieScreen's prepareSceneAudio requests the narration or a line
Synthesize ==
    /\ genStatus \in {"playing", "finished"}
    /\ ~preGen
    /\ \/ audioVoice' = AddVoice(audioVoice, "narrator", NarratorVoiceOf(voiceMap))
       \/ \E id \in Speakers(cast) :
              audioVoice' = AddVoice(audioVoice, id, LineVoiceOf(voiceMap, id))
    /\ UNCHANGED << configs, cast, voiceMap, genStatus, preGen >>
    /\ PlayerUnchanged

\* onFinish of the player
handleFinish ==
    /\ genStatus = "playing"
    /\ genStatus' = "finished"
    /\ UNCHANGED << configs, cast, voiceMap, preGen, audioVoice >>
    /\ PlayerUnchanged

\* the Editor tab and the Watch tab / the editor's close button
OpenEditor ==
    /\ genStatus \in {"playing", "finished"}
    /\ genStatus' = "editing"
    /\ UNCHANGED << configs, cast, voiceMap, preGen, audioVoice >>
    /\ PlayerUnchanged

Watch ==
    /\ genStatus \in {"editing", "finished"}
    /\ genStatus' = "playing"
    /\ UNCHANGED << configs, cast, voiceMap, preGen, audioVoice >>
    /\ PlayerUnchanged

Swap(seq, i, j) ==
    [k \in 1..Len(seq) |-> IF k = i THEN seq[j] ELSE IF k = j THEN seq[i] ELSE seq[k]]

\* SceneEditor: handleMoveScene(index, direction)
handleMoveScene ==
    /\ genStatus = "editing"
    /\ \E i \in 1..Len(cast), target \in 1..Len(cast) :
           /\ target \in {i - 1, i + 1}
           /\ cast' = Swap(cast, i, target)
    /\ UNCHANGED << configs, voiceMap, genStatus, preGen, audioVoice >>
    /\ PlayerUnchanged

\* SceneEditor: handleDeleteScene(index)
handleDeleteScene ==
    /\ genStatus = "editing"
    /\ Len(cast) > 1
    /\ \E i \in 1..Len(cast) : cast' = RemoveAt(cast, i)
    /\ UNCHANGED << configs, voiceMap, genStatus, preGen, audioVoice >>
    /\ PlayerUnchanged

\* SceneEditor: handleGenerateScene; the build that synthesizes the audio
\* itself makes the new scene's narration with 'Fenrir'
handleGenerateScene ==
    /\ genStatus = "editing"
    /\ Len(cast) < MaxScenes
    /\ \E sp \in NewSceneSpeakers : cast' = Append(cast, CastScene(<< >>, sp))
    /\ audioVoice' = IF preGen THEN AddVoice(audioVoice, "narrator", "Fenrir")
                     ELSE audioVoice
    /\ UNCHANGED << configs, voiceMap, genStatus, preGen >>
    /\ PlayerUnchanged

\* SceneEditor: handlePlayDescription in gemini mode
handlePlayDescription ==
    /\ genStatus = "editing"
    /\ audioVoice' = AddVoice(audioVoice, "narrator", "Fenrir")
    /\ UNCHANGED << configs, cast, voiceMap, genStatus, preGen >>
    /\ PlayerUnchanged

\* the New Project button: the movie's lifetime ends
NewProject ==
    /\ genStatus \in {"playing", "editing", "finished"}
    /\ genStatus' = "idle"
    /\ configs' = << >>
    /\ \E c \in Casts : cast' = c
    /\ audioVoice' = EmptyMap
    /\ UNCHANGED << voiceMap, preGen >>
    /\ PlayerUnchanged

InitVoices ==
    /\ movie = MovieB
    /\ audioMode = "gemini"
    /\ HasState(Unmounted)
    /\ lastOp = "other"
    /\ speechSynthesis = TRUE
    /\ configs \in ConfigLists
    /\ cast \in Casts
    /\ voiceMap = EmptyMap
    /\ genStatus = "idle"
    /\ preGen \in BOOLEAN
    /\ audioVoice = EmptyMap
    /\ OthersIdle

NextVoices ==
    \/ generateMovie
    \/ handleGenerate
    \/ Synthesize
    \/ handleFinish
    \/ OpenEditor
    \/ Watch
    \/ handleMoveScene
    \/ handleDeleteScene
    \/ handleGenerateScene
    \/ handlePlayDescription
    \/ NewProject

SpecVoices == InitVoices /\ [][NextVoices]_vars

----------------------------------------------------------------------------
(* generateSpeech (src/services/geminiService.ts): one call, from its        *)
(* invocation to its return.                                                 *)

\* const maxRetries = 3
maxRetries == 3

Response(kind, status, msg429) ==
    [kind |-> kind, status |-> status, msg429 |-> msg429]

\* the ways genAI.models.generateContent ends: a response with inline audio
\* data, a response without it, and errors: with status 429, with a message
\* that contains '429', with another status, without a status
Responses ==
    {Response("data", 200, FALSE), Response("empty", 200, FALSE),
     Response("error", 429, FALSE), Response("error", 0, TRUE),
     Response("error", 500, FALSE), Response("error", 0, FALSE)}

\* the voiceName arguments: none, and the voices of a line and of the narrator
VoiceNames == {"", "Kore", "Fenrir"}

\* e.message?.includes('429') || e.status === 429
IsRateLimit(e) == e.msg429 \/ e.status = 429

\* mutant of RetryDelay: the delay does not grow with the attempts
RetryDelayFlat(i) == 1500

\* delay((i + 1) * 1500)
RetryDelay(i) == (i + 1) * 1500

SpeechUnchanged ==
    UNCHANGED << playerVars, appVars, editorVars, previewVars, trimVars >>

\* generateSpeech(text, voiceName) is called: i = 0, the first
\* generateContent call is made with voiceName || 'Puck'
SpeechCall ==
    /\ speechPc = "idle"
    /\ \E v \in VoiceNames : speechVoice' = (IF v = "" THEN "Puck" ELSE v)
    /\ speechPc' = "calling"
    /\ speechI' = 0
    /\ UNCHANGED << speechLog, speechWaits, speechResult >>
    /\ SpeechUnchanged

\* the awaited generateContent call ends: the return of the try block or
\* the catch block
SpeechResponse ==
    /\ speechPc = "calling"
    /\ \E r \in Responses :
           /\ speechLog' = Append(speechLog, r)
           /\ IF r.kind = "data"
              THEN /\ speechPc' = "done"
                   /\ speechResult' = "data"
                   /\ UNCHANGED speechWaits
              ELSE IF r.kind = "empty"
              THEN /\ speechPc' = "done"
                   /\ speechResult' = "absent"
                   /\ UNCHANGED speechWaits
              ELSE IF IsRateLimit(r)
              THEN /\ speechPc' = "waiting"
                   /\ speechWaits' = Append(speechWaits, RetryDelay(speechI))
                   /\ UNCHANGED speechResult
              ELSE /\ speechPc' = "done"
                   /\ speechResult' = "absent"
                   /\ UNCHANGED speechWaits
    /\ UNCHANGED << speechI, speechVoice >>
    /\ SpeechUnchanged

\* the delay of the catch block elapses: continue, i++, and the loop test;
\* after the loop, return undefined
SpeechDelayElapsed ==
    /\ speechPc = "waiting"
    /\ speechI' = speechI + 1
    /\ IF speechI + 1 < maxRetries
       THEN /\ speechPc' = "calling"
            /\ UNCHANGED speechResult
       ELSE /\ speechPc' = "done"
            /\ speechResult' = "absent"
    /\ UNCHANGED << speechVoice, speechLog, speechWaits >>
    /\ SpeechUnchanged

InitSpeech ==
    /\ movie = MovieB
    /\ audioMode = "gemini"
    /\ HasState(Unmounted)
    /\ lastOp = "other"
    /\ speechSynthesis = TRUE
    /\ PlayerApp
    /\ OthersIdle

NextSpeech ==
    \/ SpeechCall
    \/ SpeechResponse
    \/ SpeechDelayElapsed

SpecSpeech == InitSpeech /\ [][NextSpeech]_vars /\ WF_vars(NextSpeech)

----------------------------------------------------------------------------
(* The scene editor's list operations (src/components/SceneEditor.tsx).  The *)
(* scene list is cast; an index counts from 0 as in the code.                *)

\* handleGenerateScene calls awaiting their scene at once
MaxPendingAdds == 1

\* mutant of DeleteSceneAt: the last scene can be deleted
DeleteSceneAtNoGuard(scenes, index) ==
    RemoveAt(scenes, index + 1)

\* handleDeleteScene: movie.scenes.filter((_, i) => i !== index), nothing
\* when movie.scenes.length <= 1
DeleteSceneAt(scenes, index) ==
    IF Len(scenes) <= 1 THEN scenes ELSE RemoveAt(scenes, index + 1)

\* handleMoveScene: newScenes[index] and newScenes[targetIndex] are
\* exchanged when targetIndex is an index of the list
MoveSceneAt(scenes, index, direction) ==
    LET targetIndex == IF direction = "up" THEN index - 1 ELSE index + 1
    IN  IF targetIndex >= 0 /\ targetIndex < Len(scenes)
        THEN Swap(scenes, index + 1, targetIndex + 1)
        ELSE scenes

\* the scene generateSceneFromPrompt returns: scene.characters = []
NewScene == CastScene(<< >>, << "ghost" >>)

Edit(op, index, direction) ==
    [op |-> op, index |-> index, direction |-> direction, before |-> cast]

EditorUnchanged ==
    UNCHANGED << playerVars, speechVars, previewVars, trimVars, configs,
                 voiceMap, genStatus, preGen, audioVoice >>

\* a click on an arrow of scene index (the handler itself tests the target)
MoveScene ==
    /\ genStatus = "editing"
    /\ \E index \in 0..(Len(cast) - 1), direction \in {"up", "down"} :
           /\ cast' = MoveSceneAt(cast, index, direction)
           /\ lastEdit' = Edit("move", index, direction)
    /\ UNCHANGED pendingAdds
    /\ EditorUnchanged

\* a click on the delete button of scene index
DeleteScene ==
    /\ genStatus = "editing"
    /\ \E index \in 0..(Len(cast) - 1) :
           /\ cast' = DeleteSceneAt(cast, index)
           /\ lastEdit' = Edit("delete", index, "none")
    /\ UNCHANGED pendingAdds
    /\ EditorUnchanged

\* handleGenerateScene up to its await: the movie of the render the handler
\* belongs to is what the continuation will use
GenerateSceneCalled ==
    /\ genStatus = "editing"
    /\ Len(pendingAdds) < MaxPendingAdds
    /\ pendingAdds' = Append(pendingAdds, cast)
    /\ lastEdit' = Edit("addCalled", -1, "none")
    /\ UNCHANGED cast
    /\ EditorUnchanged

\* generateSceneFromPrompt resolves with a scene, which is appended to the
\* captured list, or rejects, which is reported by an alert
GenerateSceneResolved ==
    /\ genStatus = "editing"
    /\ \E i \in 1..Len(pendingAdds) :
           /\ pendingAdds' = RemoveAt(pendingAdds, i)
           /\ \/ /\ Len(pendingAdds[i]) < MaxScenes
                 /\ cast' = Append(pendingAdds[i], NewScene)
                 /\ lastEdit' = Edit("add", -1, "none")
              \/ /\ cast' = cast
                 /\ lastEdit' = Edit("addFailed", -1, "none")
    /\ EditorUnchanged

InitEditor ==
    /\ movie = MovieB
    /\ audioMode = "gemini"
    /\ HasState(Unmounted)
    /\ lastOp = "other"
    /\ speechSynthesis = TRUE
    /\ configs = << >>
    /\ cast \in Casts
    /\ voiceMap = assignVoices(cast, << >>, [k \in 1..Len(AllCharacters(cast)) |-> 0])
    /\ genStatus = "editing"
    /\ preGen = FALSE
    /\ audioVoice = EmptyMap
    /\ OthersIdle

NextEditor ==
    \/ MoveScene
    \/ DeleteScene
    \/ GenerateSceneCalled
    \/ GenerateSceneResolved

SpecEditor == InitEditor /\ [][NextEditor]_vars

----------------------------------------------------------------------------
(* The scene editor's description preview (SceneEditor.tsx,                  *)
(* handlePlayDescription).  The end event of a source that was stopped, or   *)
(* of an utterance that was cancelled, is delivered by a later task.         *)

\* generateSpeech calls of the preview awaited at once, sources left playing
\* without a ref at once, and ended events queued at once
MaxPreview == 2

\* scene.id || String(index)
PreviewId(i) == IF SceneAt(i).id = "" THEN ToString(i) ELSE SceneAt(i).id

\* the audio items of the preview that sound
PreviewSounding ==
    (IF previewRef.playing THEN 1 ELSE 0)
      + BagCardinality(previewStrays)
      + (IF previewUtterance # "" THEN 1 ELSE 0)

\* if (activeSourceRef.current) activeSourceRef.current.stop();
\* window.speechSynthesis.cancel(): the number of items that were stopped
Stopped == (IF previewRef.playing THEN 1 ELSE 0)
             + (IF previewUtterance # "" THEN 1 ELSE 0)

PreviewUnchanged ==
    UNCHANGED << playerVars, appVars, speechVars, editorVars, trimVars >>

\* handlePlayDescription(scene, index) up to its first await; the button of
\* the scene whose audio is loading is disabled
PlayDescription ==
    /\ genStatus = "editing"
    /\ audioMode \in {"gemini", "browser"}
    /\ \E i \in 0..(NumScenes - 1) :
         LET id == PreviewId(i)
         IN  /\ loadingAudioId # id
             /\ previewRef' = [previewRef EXCEPT !.playing = FALSE]
             /\ previewEvents' = Min(previewEvents + Stopped, MaxPreview)
             /\ IF playingSceneId = id
                THEN /\ playingSceneId' = ""
                     /\ previewUtterance' = ""
                     /\ UNCHANGED << loadingAudioId, previewPending >>
                ELSE IF audioMode = "browser"
                THEN /\ playingSceneId' = id
                     /\ previewUtterance' = id
                     /\ UNCHANGED << loadingAudioId, previewPending >>
                ELSE /\ BagCardinality(previewPending) < MaxPreview
                     /\ loadingAudioId' = id
                     /\ previewUtterance' = ""
                     /\ previewPending' = previewPending (+) SetToBag({id})
                     /\ UNCHANGED playingSceneId
    /\ UNCHANGED previewStrays
    /\ PreviewUnchanged

\* generateSpeech resolves inside handlePlayDescription: with audio, a source
\* is created, stored in the ref and started; with nothing, an alert; with a
\* payload that does not decode, the catch block
PreviewSpeechResolved ==
    /\ \E id \in BagToSet(previewPending), out \in {"ok", "absent", "malformed"} :
           /\ previewPending' = previewPending (-) SetToBag({id})
           /\ loadingAudioId' = ""
           /\ IF out = "ok"
              THEN /\ previewRef.playing =>
                          BagCardinality(previewStrays) < MaxPreview
                   /\ previewStrays' =
                          (IF previewRef.playing
                           THEN previewStrays (+) SetToBag({previewRef.id})
                           ELSE previewStrays)
                   /\ previewRef' = [id |-> id, playing |-> TRUE]
                   /\ playingSceneId' = id
              ELSE /\ playingSceneId' =
                          (IF out = "malformed" THEN "" ELSE playingSceneId)
                   /\ UNCHANGED << previewRef, previewStrays >>
    /\ UNCHANGED << previewUtterance, previewEvents >>
    /\ PreviewUnchanged

\* a source plays to its end: source.onended
PreviewSourceEnded ==
    /\ \/ /\ previewRef.playing
          /\ previewRef' = [previewRef EXCEPT !.playing = FALSE]
          /\ UNCHANGED previewStrays
       \/ \E id \in BagToSet(previewStrays) :
              /\ previewStrays' = previewStrays (-) SetToBag({id})
              /\ UNCHANGED previewRef
    /\ playingSceneId' = ""
    /\ UNCHANGED << loadingAudioId, previewUtterance, previewPending, previewEvents >>
    /\ PreviewUnchanged

\* the utterance is spoken to its end: utterance.onend
PreviewUtteranceEnded ==
    /\ previewUtterance # ""
    /\ previewUtterance' = ""
    /\ playingSceneId' = ""
    /\ UNCHANGED << loadingAudioId, previewRef, previewStrays, previewPending,
                    previewEvents >>
    /\ PreviewUnchanged

\* the end event of a stopped source or of a cancelled utterance is
\* delivered: () => setPlayingSceneId(null)
PreviewEventDelivered ==
    /\ previewEvents > 0
    /\ previewEvents' = previewEvents - 1
    /\ playingSceneId' = ""
    /\ UNCHANGED << loadingAudioId, previewRef, previewStrays, previewUtterance,
                    previewPending >>
    /\ PreviewUnchanged

InitPreview ==
    /\ movie \in {MovieA, MovieC}
    /\ audioMode \in {"gemini", "browser"}
    /\ HasState(Unmounted)
    /\ lastOp = "other"
    /\ speechSynthesis = TRUE
    /\ configs = << >>
    /\ cast = << >>
    /\ voiceMap = assignVoices(<< >>, << >>, << >>)
    /\ genStatus = "editing"
    /\ preGen = FALSE
    /\ audioVoice = EmptyMap
    /\ OthersIdle

NextPreview ==
    \/ PlayDescription
    \/ PreviewSpeechResolved
    \/ PreviewSourceEnded
    \/ PreviewUtteranceEnded
    \/ PreviewEventDelivered

SpecPreview == InitPreview /\ [][NextPreview]_vars

----------------------------------------------------------------------------
(* The audio-trim controls of the upload form (src/App.tsx) and trimAudio.  *)
(* Times are in tenths of a second, the step of the sliders.                *)

\* getAudioDuration calls awaited at once
MaxLookups == 1

\* slider changes followed between two uploads
MaxSlides == 2

\* files uploaded one after the other
MaxUploads == 2

AudioFile(name, duration, decodes) ==
    [name |-> name, duration |-> duration, decodes |-> decodes]

\* the files uploaded: half a second, 90 seconds, and a file whose audio
\* data does not decode
AudioFiles ==
    {AudioFile("short", 5, TRUE), AudioFile("song", 900, TRUE),
     AudioFile("broken", 0, FALSE)}

\* the positions a slider is moved to
SliderStops == {0, 3, 300, 700, 900}

\* setAudioDuration(60); setTrimEnd(60)
FallbackDuration == 600

Abs(x) == IF x >= 0 THEN x ELSE -x

\* trimAudio(file, startTime, endTime): the original file when nothing is to
\* be cut, an Error when the range is empty or inverted, the cut otherwise
trimAudio(file, startTime, endTime) ==
    IF ~file.decodes THEN "throws"
    ELSE IF startTime = 0 /\ Abs(endTime - file.duration) < 1 THEN "file"
    ELSE IF endTime - startTime <= 0 THEN "throws"
    ELSE "trimmed"

TrimUnchanged ==
    UNCHANGED << playerVars, speechVars, editorVars, previewVars, configs, cast,
                 voiceMap, preGen, audioVoice >>

\* the upload form is shown: !movie && genState.status !== 'generating'
FormShown == genStatus \in {"idle", "error"}

\* handleAudioUpload up to its await; the file input opens only while no
\* file is selected
AudioUpload ==
    /\ FormShown
    /\ customAudioFile = NoFile
    /\ Len(pendingLookups) < MaxLookups
    /\ uploads < MaxUploads
    /\ uploads' = uploads + 1
    /\ \E f \in AudioFiles :
           /\ customAudioFile' = f
           /\ pendingLookups' = Append(pendingLookups, f)
    /\ slides' = 0
    /\ UNCHANGED << audioDuration, trimStart, trimEnd, trimCall, genStatus >>
    /\ TrimUnchanged

\* getAudioDuration resolves or rejects inside handleAudioUpload
DurationResolved ==
    /\ \E i \in 1..Len(pendingLookups) :
           LET f == pendingLookups[i]
           IN  /\ pendingLookups' = RemoveAt(pendingLookups, i)
               /\ IF f.decodes
                  THEN /\ audioDuration' = f.duration
                       /\ trimStart' = 0
                       /\ trimEnd' = f.duration
                  ELSE /\ audioDuration' = FallbackDuration
                       /\ trimEnd' = FallbackDuration
                       /\ UNCHANGED trimStart
    /\ UNCHANGED << customAudioFile, trimCall, genStatus, slides, uploads >>
    /\ TrimUnchanged

\* the remove button of the selected file
RemoveFile ==
    /\ FormShown
    /\ customAudioFile # NoFile
    /\ customAudioFile' = NoFile
    /\ audioDuration' = 0
    /\ UNCHANGED << trimStart, trimEnd, pendingLookups, trimCall, genStatus,
                    slides, uploads >>
    /\ TrimUnchanged

\* the sliders are rendered when customAudioFile && audioDuration > 0, with
\* min = 0 and max = audioDuration
SlidersShown == FormShown /\ customAudioFile # NoFile /\ audioDuration > 0

\* a slider is moved
Slide ==
    /\ SlidersShown
    /\ slides < MaxSlides
    /\ slides' = slides + 1
    /\ UNCHANGED uploads

\* the start slider over the bar: setTrimStart(Math.min(val, trimEnd - 1))
StartBarChanged ==
    /\ Slide
    /\ \E val \in SliderStops :
           /\ val <= audioDuration
           /\ trimStart' = Min(val, trimEnd - 10)
    /\ UNCHANGED << customAudioFile, audioDuration, trimEnd, pendingLookups,
                    trimCall, genStatus >>
    /\ TrimUnchanged

\* the Start slider: setTrimStart(Math.min(val, trimEnd - 0.5))
StartChanged ==
    /\ Slide
    /\ \E val \in SliderStops :
           /\ val <= audioDuration
           /\ trimStart' = Min(val, trimEnd - 5)
    /\ UNCHANGED << customAudioFile, audioDuration, trimEnd, pendingLookups,
                    trimCall, genStatus >>
    /\ TrimUnchanged

\* the End slider: setTrimEnd(Math.max(val, trimStart + 0.5))
EndChanged ==
    /\ Slide
    /\ \E val \in SliderStops :
           /\ val <= audioDuration
           /\ trimEnd' = Max(val, trimStart + 5)
    /\ UNCHANGED << customAudioFile, audioDuration, trimStart, pendingLookups,
                    trimCall, genStatus >>
    /\ TrimUnchanged

\* handleGenerate in audio mode up to the result of trimAudio: the file is
\* trimmed when trimStart > 0.1 or |trimEnd - audioDuration| > 0.1; an Error
\* of trimAudio ends in the catch block
GenerateFromAudio ==
    /\ FormShown
    /\ customAudioFile # NoFile
    /\ IF trimStart > 1 \/ Abs(trimEnd - audioDuration) > 1
       THEN LET r == trimAudio(customAudioFile, trimStart, trimEnd)
            IN  /\ trimCall' = [start |-> trimStart, end |-> trimEnd, result |-> r]
                /\ genStatus' = (IF r = "throws" THEN "error" ELSE "generating")
       ELSE /\ trimCall' = NoTrimCall
            /\ genStatus' = "generating"
    /\ UNCHANGED << customAudioFile, audioDuration, trimStart, trimEnd,
                    pendingLookups, slides, uploads >>
    /\ TrimUnchanged

InitTrim ==
    /\ movie = MovieB
    /\ audioMode = "custom"
    /\ HasState(Unmounted)
    /\ lastOp = "other"
    /\ speechSynthesis = TRUE
    /\ configs = << >>
    /\ cast = << >>
    /\ voiceMap = EmptyMap
    /\ genStatus = "idle"
    /\ preGen = FALSE
    /\ audioVoice = EmptyMap
    /\ OthersIdle

NextTrim ==
    \/ AudioUpload
    \/ DurationResolved
    \/ RemoveFile
    \/ StartBarChanged
    \/ StartChanged
    \/ EndChanged
    \/ GenerateFromAudio

SpecTrim == InitTrim /\ [][NextTrim]_vars

----------------------------------------------------------------------------
(* Specifications *)

Outcomes == {"ok", "absent", "malformed"}

Next ==
    \/ TimerFire
    \/ BufferEnded
    \/ UtteranceEnded
    \/ ResumeResolved
    \/ FetchResolved(Outcomes)
    \/ DelayElapsed
    \/ TogglePlay
    \/ ToggleAudio
    \/ Restart
    \/ TimeUpdate
    \/ TrackEnded

Spec == Init /\ [][Next]_vars

\* playback left alone: no control is operated, every request and every
\* speak completes
InitAuto == InitWith(AutoMovies, {"gemini", "browser"}, AutoMovies)

NextAuto ==
    \/ TimerFire
    \/ BufferEnded
    \/ UtteranceEnded
    \/ ResumeResolved
    \/ FetchResolved({"ok", "absent"})
    \/ DelayElapsed

SpecAuto == InitAuto /\ [][NextAuto]_vars /\ WF_vars(NextAuto)

\* playback with the audio switched off by the viewer at some moment and
\* otherwise left alone: the audio button is clicked once, nothing is paused
\* or restarted, every request and every timer completes
MuteAudio ==
    /\ audioEnabled
    /\ ToggleAudio

NextMuted ==
    \/ NextAuto
    \/ MuteAudio

InitMuted == InitWith({MovieA, MovieB}, {"gemini", "browser"}, {MovieB})

SpecMuted == InitMuted /\ [][NextMuted]_vars /\ WF_vars(NextAuto)

\* the prefetch and the playback of generated mode on the movies whose ids
\* contain the key separators
InitKeys == InitWith(KeyMovies, {"gemini"}, {})

NextKeys ==
    \/ TimerFire
    \/ BufferEnded
    \/ FetchResolved({"ok", "absent"})
    \/ DelayElapsed

SpecKeys == InitKeys /\ [][NextKeys]_vars

\* the external-track mode alone: the track's events and the controls
InitTrack == InitWith({}, {"custom"}, {})

NextTrack ==
    \/ TimeUpdate
    \/ TrackEnded
    \/ TogglePlay
    \/ ToggleAudio
    \/ Restart

SpecTrack == InitTrack /\ [][NextTrack]_vars

\* the external-track mode on the tracks whose timestamps do not tile the
\* time axis
InitIrregular ==
    /\ audioMode = "custom"
    /\ movie \in IrregularTracks
    /\ speechSynthesis = TRUE
    /\ HasState(Mounted("none"))
    /\ lastOp = "other"
    /\ PlayerApp
    /\ OthersIdle

SpecIrregular == InitIrregular /\ [][NextTrack]_vars

----------------------------------------------------------------------------
(* Claims *)

\* text.length of the step (scene i, line l); l = -1 is the narration
TextLen(i, l) ==
    IF l = -1 THEN SceneAt(i).descLen ELSE SceneAt(i).script[l + 1]

\* the steps of the movie that speak: narrations and dialogue lines
SpokenSteps ==
    {c \in {<< i, l >> : i \in 0..(NumScenes - 1), l \in -1..2} :
        c[2] < ScriptLen(c[1])}

\* C1: left alone, a playback in generated or on-device mode visits the
\* narration of every scene and every dialogue line exactly once, in scene
\* order and line order (the cursor never leaves the expected sequence, no
\* step is spoken twice, every advance is the completion of the step's own
\* speak), and then finishes exactly once.
C1_AutoPlaysEveryStepOnce ==
    /\ [](/\ ~bad
          /\ speaks <= 1
          /\ lastOp # "timerStale"
          /\ finishCount <= 1
          /\ (finishCount = 1 => prog = Len(Expected) /\ ~isPlaying))
    /\ <>(finishCount = 1)

C1_Witness ==
    /\ movie = MovieC
    /\ audioMode = "gemini"
    /\ finishCount = 1
    /\ prog = Len(Expected)
    /\ Cursor(St) = << 2, 2 >>

\* C2: once onFinish has been invoked, no task other than a restart invokes
\* it again.
C2_FinishOnce ==
    [][(finishCount >= 1 /\ lastOp' # "restart") => finishCount' = finishCount]_vars

\* C3: after handleRestart the cursor goes through scene 0's narration and
\* scene 0's dialogue lines in order: it does not leave the expected
\* sequence before all of scene 0's steps were visited.
C3_RestartFromSceneZero ==
    (audioMode # "custom" /\ fromRestart /\ bad) => prog >= 1 + ScriptLen(0)

\* C4: while playback is paused (not playing, and not finished) the cursor
\* does not change.
C4_PauseKeepsCursor ==
    [][(~isPlaying /\ ~isPlaying' /\ finishCount = 0 /\ lastOp' # "restart")
          => (sceneIndex' = sceneIndex /\ scriptIndex' = scriptIndex)]_vars

\* C5: in the state reached by pausing, no buffer source, no utterance and
\* no external track is playing.
C5_PauseStopsAudio ==
    lastOp = "pause" =>
        /\ ~activeSource.playing
        /\ utterance.kind = "none"
        /\ ~trackPlaying

\* C6: within one scene the line index changes only by one step forward,
\* and only by the completion of the latest speak of the current line.
C6_LinesInOrder ==
    [][(/\ scriptIndex >= 0
        /\ scriptIndex' >= 0
        /\ scriptIndex' # scriptIndex
        /\ sceneIndex' = sceneIndex)
          => (scriptIndex' = scriptIndex + 1 /\ lastOp' = "timerCur")]_vars

\* C7: a dialogue line begins only from the narration step of its scene, by
\* the completion of that narration's speak.
C7_NarrationFirst ==
    [][(/\ audioMode # "custom"
        /\ scriptIndex < 0
        /\ scriptIndex' >= 0
        /\ scriptIndex' < ScriptLen(sceneIndex'))
          => (scriptIndex = -1 /\ speaks >= 1 /\ lastOp' = "timerCur")]_vars

\* C8: after a time update at time t of the external track, the scene index
\* is the scene whose half-open interval [start, end) contains t; an end
\* time belongs to the following scene.
C8_TimeSelectsScene ==
    lastOp = "timeUpdate" =>
        /\ \A i \in 0..(NumScenes - 1) :
               (/\ SceneAt(i).startTime # NoTime
                /\ SceneAt(i).endTime # NoTime
                /\ SceneAt(i).startTime <= trackTime
                /\ trackTime < SceneAt(i).endTime) => sceneIndex = i
        /\ (movie = TrackMovie /\ trackTime = 15) => sceneIndex = 1
        /\ (movie = TrackMovie /\ trackTime = 10) => sceneIndex = 1
        /\ (movie = TrackMovie /\ trackTime = 24) => sceneIndex = 2

C8_Witness ==
    /\ lastOp = "timeUpdate"
    /\ movie = TrackMovie
    /\ trackTime = 15
    /\ sceneIndex = 1

\* C9: a time update at or after the last scene's end stops playback and
\* signals the finish.
C9_PastEndFinishes ==
    (/\ lastOp = "timeUpdate"
     /\ SceneAt(NumScenes - 1).endTime # NoTime
     /\ trackTime >= SceneAt(NumScenes - 1).endTime)
        => (~isPlaying /\ ~trackPlaying /\ finishCount >= 1)

C9_Witness ==
    /\ lastOp = "timeUpdate"
    /\ movie = TrackMovie
    /\ trackTime = 40
    /\ sceneIndex = 2
    /\ finishCount = 1

C11_DisableStopsAudio ==
    [][(audioMode # "custom" /\ audioEnabled /\ ~audioEnabled')
          => (~activeSource'.playing /\ utterance'.kind = "none")]_vars

\* C12: once audio is disabled and playback is left running, no speak starts
\* a buffer source or an utterance (the steps complete by timers), and the
\* playback reaches its finish.
C12_MutedProgress ==
    /\ [](~audioEnabled =>
            /\ ~(activeSource.playing /\ activeSource.cur)
            /\ ~(utterance.kind # "none" /\ utterance.cur)
            /\ lastSpeak.via \in {"none", "timer"})
    /\ [](~audioEnabled => <>(finishCount >= 1 /\ ~isPlaying))

C12_Witness ==
    /\ ~audioEnabled
    /\ movie = MovieA
    /\ audioMode = "gemini"
    /\ finishCount = 1
    /\ Cursor(St) = << 1, 1 >>
    /\ getAudioKey(0, 0) \in audioCache

\* the synthesis requests (generateSpeech calls) that have not resolved yet
FetchesInFlight ==
    {i \in 1..Len(prefetch) : prefetch[i].pc \in {"narr", "line"}}

\* C13: at no time are two synthesis requests in flight.
C13_OneFetchAtATime ==
    Cardinality(FetchesInFlight) <= 1

\* C14: while the 'preparing audio' flag is set, no task other than a
\* restart moves the cursor, and no task speaks.
C14_PrefetchSuspendsPlayback ==
    [][(isPreparingAudio /\ isPreparingAudio' /\ lastOp' # "restart")
          => /\ sceneIndex' = sceneIndex
             /\ scriptIndex' = scriptIndex
             /\ lastSpeak' \in {lastSpeak, NoSpeak}]_vars

\* C15: at most one audio item (buffer source or utterance) sounds at any
\* time, and it is the one the component holds; a speak that finds an item
\* playing stops it before it starts the new one.
C15_OneItemPlaying ==
    /\ sounding <= 1
    /\ sounding = (IF activeSource.playing THEN 1 ELSE 0)
                    + (IF utterance.kind # "none" THEN 1 ELSE 0)

C15_Witness ==
    /\ audioMode = "gemini"
    /\ lastSpeak.via = "buffer"
    /\ lastSpeak.replaced
    /\ activeSource.playing
    /\ activeSource.cur
    /\ sounding = 1

\* the line indices over which the keys are compared
KeyLineMax == 11

\* the steps <<scene, line>> of the movie, line -1 being the narration
KeySteps ==
    {<< i, l >> : i \in 0..(NumScenes - 1), l \in -1..KeyLineMax}

DistinctIds ==
    \A i, j \in 0..(NumScenes - 1) : SceneAt(i).id = SceneAt(j).id => i = j

\* C16: with distinct scene ids the keys of two different steps differ, so
\* the cache holds a buffer under the key of a step exactly when a buffer
\* was stored for that step.
C16_KeyRoundTrip ==
    DistinctIds =>
        /\ \A c, d \in KeySteps :
               getAudioKey(c[1], c[2]) = getAudioKey(d[1], d[2]) => c = d
        /\ \A c \in KeySteps :
               getAudioKey(c[1], c[2]) \in audioCache <=> c \in cached

C16_Witness ==
    /\ movie = KeyMovie("s", "s-line-0")
    /\ << 0, 0 >> \in cached
    /\ << 1, -1 >> \in cached
    /\ getAudioKey(0, 0) \in audioCache
    /\ << 0, 1 >> \notin cached
    /\ getAudioKey(0, 1) \notin audioCache

\* C17: no task removes a key from the cache, and no set() replaces the
\* buffer stored under a key.
C17_NoEviction ==
    [][audioCache \subseteq audioCache' /\ ~overwritten']_vars

\* C18: the scene index is always the index of a scene of the movie.
C18_SceneIndexInRange ==
    sceneIndex >= 0 /\ sceneIndex < NumScenes

C18_Witness ==
    /\ movie = MovieA
    /\ sceneIndex = NumScenes - 1
    /\ scriptIndex >= ScriptLen(sceneIndex)
    /\ finishCount >= 1
    /\ ~isPlaying

\* the movie exists: it was generated and its voices were assigned
Assigned == genStatus \in {"playing", "editing", "finished"}

\* C19: whatever the characters, their explicit voices and the random picks
\* are, every run of the assignment on the movie being generated maps the
\* reserved key 'narrator' to the designated narrator voice, so any two runs
\* on the same inputs agree on it, and the map of a generated movie has it.
C19_NarratorVoiceFixed ==
    /\ Assigned => voiceMap["narrator"] = NARRATOR_VOICE
    /\ genStatus = "generating" =>
           LET first == assignVoices(cast, configs,
                                     [k \in 1..Len(AllCharacters(cast)) |-> 0])
           IN  \A rnd \in Randoms(cast) :
                   /\ assignVoices(cast, configs, rnd)["narrator"] = NARRATOR_VOICE
                   /\ assignVoices(cast, configs, rnd)["narrator"] = first["narrator"]

C19_Witness ==
    /\ Assigned
    /\ cast = CastB
    /\ configs = << Cfg("ivan", ""), Cfg("narrator", "Kore") >>
    /\ voiceMap["narrator"] = "Fenrir"
    /\ voiceMap["x"] = "Puck"

\* the voice assignVoices gives the character at position k of the list of
\* all characters is the one guessed at that position
GuessedAtFirst(m, chars, rnd, k) ==
    m[chars[k].id] = guessVoice(chars[k].name, rnd[Len(chars) - k + 1])

\* C20: a character's voice is the one chosen at its first occurrence, no
\* operation on an existing movie changes the voice the map holds for a
\* character, and the audio of a character the map holds a voice for is
\* made with that voice.
C20_VoiceNeverChanges ==
    /\ [](genStatus = "generating" => \A rnd \in Randoms(cast) :
            LET chars == AllCharacters(cast)
                m == assignVoices(cast, configs, rnd)
            IN  \A k \in 1..Len(chars) :
                    (/\ chars[k].id \notin DOMAIN FromConfigs(EmptyMap, configs)
                     /\ chars[k].id # "narrator"
                     /\ \A j \in 1..(k - 1) : chars[j].id # chars[k].id)
                        => GuessedAtFirst(m, chars, rnd, k))
    /\ [][(Assigned /\ Assigned') =>
            \A id \in DOMAIN voiceMap :
                id \in DOMAIN voiceMap' /\ voiceMap'[id] = voiceMap[id]]_vars
    /\ [](Assigned =>
            \A id \in (DOMAIN voiceMap) \cap (DOMAIN audioVoice) :
                audioVoice[id] \subseteq {voiceMap[id]})

\* the voices of a pool
PoolOf(pool) == {pool[i] : i \in 1..Len(pool)}

\* the voices the CharacterConfig list gives explicitly for an id
ExplicitVoices(cfgs, id) ==
    {cfgs[i].voice : i \in {j \in 1..Len(cfgs) : cfgs[j].id = id /\ cfgs[j].voice # ""}}

\* the name a character id has where the movie first lists it
FirstName(chars, id) ==
    LET ks == {k \in 1..Len(chars) : chars[k].id = id}
    IN  chars[CHOOSE k \in ks : \A j \in ks : k <= j].name

\* the lower-cased name ends with one of the vowels of the heuristic
TrailingVowel(name) ==
    /\ name # << >>
    /\ toLowerCase(name)[Len(name)] \in {"cyr-a", "cyr-ya", "a"}

\* the voice map m follows the assignment rule for the character ids in ids
VoiceRule(m, scs, cfgs, ids) ==
    /\ PoolOf(MALE_VOICES) \cap PoolOf(FEMALE_VOICES) = {}
    /\ \A id \in ids :
           /\ id \in DOMAIN m
           /\ IF ExplicitVoices(cfgs, id) # {}
              THEN m[id] \in ExplicitVoices(cfgs, id)
              ELSE LET name == FirstName(AllCharacters(scs), id)
                   IN  IF name = << >> THEN m[id] = MALE_VOICES[1]
                       ELSE IF TrailingVowel(name) THEN m[id] \in PoolOf(FEMALE_VOICES)
                       ELSE m[id] \in PoolOf(MALE_VOICES)

\* the ids of the characters present in some scene
CharacterIds(scs) ==
    {AllCharacters(scs)[k].id : k \in 1..Len(AllCharacters(scs))}

\* C21 as stated: the voice map built for a generated movie gives every
\* character present in some scene its explicit voice if one is configured
\* for its id, otherwise a voice of the female pool if its lower-cased name
\* ends with a vowel of the heuristic and a voice of the male pool if not
\* (the first male voice for an empty name); the pools are disjoint.
C21_VoiceByConfigOrName ==
    [][(genStatus = "generating" /\ genStatus' = "playing")
          => VoiceRule(voiceMap', cast, configs, CharacterIds(cast))]_vars

\* C21, amended: the rule holds for every character whose id is not the
\* reserved key 'narrator'; a character with that id has the narrator voice.
C21_VoiceByConfigOrNameExceptNarrator ==
    [][(genStatus = "generating" /\ genStatus' = "playing")
          => /\ VoiceRule(voiceMap', cast, configs, CharacterIds(cast) \ {"narrator"})
             /\ voiceMap'["narrator"] = NARRATOR_VOICE]_vars

C21_Witness ==
    /\ genStatus = "playing"
    /\ cast = CastA
    /\ configs = << >>
    /\ voiceMap["ivan"] = "Charon"
    /\ voiceMap["anna"] = "Kore"
    /\ DOMAIN voiceMap = {"ivan", "anna", "narrator"}

\* C22: a payload whose decoding fails does not stop the prefetch, for the
\* narration as for a line: the prefetch goes on to its end, where the
\* 'preparing audio' flag is cleared and playback continues.  So the flag is
\* set only while a prefetch is in flight, and the player is in pre-roll
\* only while the first prefetch is in flight.
C22_DecodeFailureNonFatal ==
    audioMode = "gemini" =>
        /\ isPreparingAudio => Len(prefetch) > 0
        /\ scriptIndex = -2 => Len(prefetch) > 0

\* C23: an absent synthesis result stops nothing.  Left alone, with every
\* request resolving with a payload or with nothing: the prefetch goes on
\* (the 'preparing audio' flag is set only while a prefetch is in flight), a
\* step no buffer was stored for is spoken by a timer of max(2000 ms, 60 ms
\* per character) and by no buffer source, the cursor leaves such a step only
\* by that timer's callback, and the playback reaches its finish.
C23_AbsentSynthesisNotFatal ==
    /\ [](audioMode = "gemini" =>
            /\ isPreparingAudio => Len(prefetch) > 0
            /\ (/\ lastSpeak.via # "none"
                /\ << lastSpeak.scene, lastSpeak.line >> \notin cached)
                 => LET n == TextLen(lastSpeak.scene, lastSpeak.line)
                    IN  /\ getAudioKey(lastSpeak.scene, lastSpeak.line) \notin audioCache
                        /\ lastSpeak.via = "timer"
                        /\ lastSpeak.delay >= 2000
                        /\ lastSpeak.delay \in {2000, 60 * n}
                        /\ lastSpeak.delay >= 60 * n
                        /\ ~(activeSource.playing /\ activeSource.cur))
    /\ [][(/\ audioMode = "gemini"
           /\ lastSpeak.via = "timer"
           /\ Cursor(St) # << sceneIndex', scriptIndex' >>)
             => lastOp' = "timerCur"]_vars
    /\ <>(finishCount = 1)

C23_Witness ==
    /\ audioMode = "gemini"
    /\ movie = MovieA
    /\ << 0, -1 >> \in cached
    /\ << 0, 0 >> \notin cached
    /\ << 0, 1 >> \in cached
    /\ lastSpeak.scene = 0
    /\ lastSpeak.line = 0
    /\ lastSpeak.via = "timer"
    /\ lastSpeak.delay = 6000
    /\ BagCardinality(timers) = 1

\* C24: in on-device mode without a platform speech synthesizer no utterance
\* is spoken, every speak completes at once (its nextStep is scheduled and no
\* speak is left without a pending completion), and a restart succeeds: it
\* leaves the player playing at scene 0's narration.
C24_NoSynthesizerNoStall ==
    (audioMode = "browser" /\ ~speechSynthesis) =>
        /\ utterance.kind = "none"
        /\ (lastSpeak.via = "tts" /\ lastSpeak.enabled)
              => \E t \in BagToSet(timers) : t.cur
        /\ lastOp = "restart"
              => (sceneIndex = 0 /\ scriptIndex = -1 /\ isPlaying)

\* the last scene of the external track has no end timestamp
OpenEnded ==
    audioMode = "custom" /\ SceneAt(NumScenes - 1).endTime = NoTime

\* C25 as stated: with an open-ended last scene no task but the viewer's
\* pause stops the playback, and no task invokes the finish callback: neither
\* a time update nor any other event of the track.
C25_OpenEndNeverFinishes ==
    [][(OpenEnded /\ lastOp' # "pause")
          => (finishCount' = finishCount /\ (isPlaying => isPlaying'))]_vars

\* C25, amended: with an open-ended last scene no time update stops the
\* playback or invokes the finish callback; the only task that does, besides
\* the viewer's pause, is the 'ended' event of the track.
C25_OpenEndFinishesOnEndedOnly ==
    [][(OpenEnded /\ lastOp' \notin {"pause", "ended"})
          => (finishCount' = finishCount /\ (isPlaying => isPlaying'))]_vars

C25_Witness ==
    /\ OpenEnded
    /\ lastOp = "timeUpdate"
    /\ trackTime = 41
    /\ sceneIndex = 1
    /\ isPlaying
    /\ trackPlaying
    /\ finishCount = 0

\* C26: the callback of a completion that belongs to an abandoned or
\* re-issued step (the step was left, or spoken again after a pause, an audio
\* toggle or a restart) does not change the cursor.
C26_StaleCompletionIgnored ==
    [][lastOp' = "timerStale"
          => (sceneIndex' = sceneIndex /\ scriptIndex' = scriptIndex)]_vars

\* C27: the step index is pre-roll (-2), narration (-1), a dialogue line of
\* the current scene or scene-complete: it is never below -2 and never above
\* the number of lines of the current scene.
C27_StepIndexInDomain ==
    /\ scriptIndex >= -2
    /\ HasScene(sceneIndex) => scriptIndex <= ScriptLen(sceneIndex)

\* C28: for the narration step of a scene whose narration text is empty
\* nothing is waited for: no buffer source, no utterance and no synthetic
\* delay is started for it.
C28_EmptyNarrationImmediate ==
    ~(/\ lastSpeak.via # "none"
      /\ lastSpeak.line = -1
      /\ TextLen(lastSpeak.scene, -1) = 0)

\* the prefetch pass of scene k is complete: the key of its narration (if
\* the narration has a text) and of each of its lines is in the cache or its
\* request was made and has resolved
PassComplete(k) ==
    \A l \in -1..(ScriptLen(k) - 1) :
        \/ (l = -1 /\ SceneAt(k).descLen = 0)
        \/ getAudioKey(k, l) \in audioCache
        \/ << k, l >> \in attempted

\* C29: in generated mode the narration of a scene is spoken only after a
\* prefetch pass of that scene is complete.
C29_NarrationAfterPrefetch ==
    (audioMode = "gemini" /\ lastSpeak.via # "none" /\ lastSpeak.line = -1)
        => PassComplete(lastSpeak.scene)

InFlight(pf, q) == Cardinality({i \in 1..Len(pf) : pf[i] = q})

\* the positions of prepareSceneAudio at which a synthesis request is awaited
FetchPositions(pf) ==
    {pf[i] : i \in {j \in 1..Len(pf) : pf[j].pc \in {"narr", "line"}}}

\* the requests that resolve in a step, and the requests a step issues
Resolving == {q \in FetchPositions(prefetch) : InFlight(prefetch', q) < InFlight(prefetch, q)}
Issuing == {q \in FetchPositions(prefetch') : InFlight(prefetch', q) > InFlight(prefetch, q)}

\* C31: within a prefetch pass two consecutive synthesis requests are
\* separated by the fixed delay: the task in which a request of a pass
\* resolves issues no request of that pass.
C31_DelayBetweenRequests ==
    [][\A q \in Resolving :
          ~\E n \in Issuing : n.idx = q.idx /\ n.cont = q.cont]_vars

\* the cache key a position of prepareSceneAudio requests the audio of
KeyOf(q) == getAudioKey(q.idx, IF q.pc = "narr" THEN -1 ELSE q.l)

\* C32: no request is issued for a cache key a request was issued for
\* before, whether that request has resolved or is still in flight.
C32_NoSecondFetchForKey ==
    [][\A n \in Issuing :
          /\ \A c \in attempted : getAudioKey(c[1], c[2]) # KeyOf(n)
          /\ \A q \in FetchPositions(prefetch) : KeyOf(q) # KeyOf(n)]_vars

\* C33: in external-track mode the narration and dialogue steps are not
\* used: the narrating flag is false, no current line is set, nothing is
\* spoken (no speak call, no buffer source, no utterance, no completion
\* pending), no prefetch is started and no request made, the preparing flag
\* is false; and a time update leaves the step index and these flags as they
\* are, changing the playing flag only when the time is at or past the last
\* scene's end.
C33_TrackModeNoSubStates ==
    /\ [](audioMode = "custom" =>
            /\ ~isNarrating
            /\ currentLine = NoLine
            /\ lastSpeak = NoSpeak
            /\ speaks = 0
            /\ activeSource = NoSource
            /\ utterance = NoUtterance
            /\ timers = EmptyBag
            /\ prefetch = << >>
            /\ attempted = {}
            /\ audioCache = {}
            /\ ~isPreparingAudio)
    /\ [][(audioMode = "custom" /\ lastOp' = "timeUpdate") =>
            /\ scriptIndex' = scriptIndex
            /\ isNarrating' = isNarrating
            /\ currentLine' = currentLine
            /\ audioEnabled' = audioEnabled
            /\ isPreparingAudio' = isPreparingAudio
            /\ (isPlaying' # isPlaying =>
                  (~isPlaying' /\ PastLastEnd(trackTime')))]_vars

C33_Witness ==
    /\ audioMode = "custom"
    /\ movie = TrackMovie
    /\ lastOp = "timeUpdate"
    /\ trackTime = 24
    /\ sceneIndex = 2
    /\ scriptIndex = -1
    /\ fromRestart
    /\ isPlaying
    /\ ~isNarrating
    /\ currentLine = NoLine

\* s.startTime ?? 0
StartOf(i) == IF SceneAt(i).startTime = NoTime THEN 0 ELSE SceneAt(i).startTime

\* the time t lies in scene i's interval [start, end), a missing end being
\* no bound
Contains(i, t) ==
    /\ t >= StartOf(i)
    /\ (SceneAt(i).endTime = NoTime \/ t < SceneAt(i).endTime)

\* C34: a scene i that is not the last one and has no end timestamp extends
\* to infinity: after a time update at a time at or after its start that no
\* earlier scene contains, scene i is the selected scene; so, the later
\* scenes starting no earlier than scene i, no scene after i is ever
\* selected.
C34_MissingEndSkipsLaterScenes ==
    audioMode = "custom" =>
        \A i \in 0..(NumScenes - 2) :
            SceneAt(i).endTime = NoTime =>
                /\ (/\ lastOp = "timeUpdate"
                    /\ trackTime >= StartOf(i)
                    /\ \A j \in 0..(i - 1) : ~Contains(j, trackTime))
                      => sceneIndex = i
                /\ (\A j \in (i + 1)..(NumScenes - 1) : StartOf(j) >= StartOf(i))
                      => sceneIndex <= i

C34_Witness ==
    /\ movie = TrackMovieNoEnd
    /\ lastOp = "timeUpdate"
    /\ trackTime = 39
    /\ sceneIndex = 1
    /\ isPlaying
    /\ finishCount = 0

\* C35: a time update at a time that lies in no scene's interval (before the
\* first start, in a gap between two scenes, at or after the last end)
\* leaves the scene index unchanged.
C35_NoSceneKeepsIndex ==
    [][(/\ audioMode = "custom"
        /\ lastOp' = "timeUpdate"
        /\ \A i \in 0..(NumScenes - 1) : ~Contains(i, trackTime'))
          => sceneIndex' = sceneIndex]_vars

\* a time update in the gap between the two scenes kept the scene selected
\* before it
C35_Witness ==
    /\ movie = TrackMovieGaps
    /\ lastOp = "timeUpdate"
    /\ trackTime = 10
    /\ sceneIndex = 0
    /\ isPlaying
    /\ trackPlaying
    /\ finishCount = 0

\* C36: the presentation state agrees with the cursor: the narrating flag is
\* set only while the step index is narration, a current dialogue line that
\* is set is the line at the step index of the current scene, and the two
\* are never set together.
C36_PresentationFollowsCursor ==
    /\ isNarrating => scriptIndex = -1
    /\ currentLine # NoLine => currentLine = << sceneIndex, scriptIndex >>
    /\ ~(isNarrating /\ currentLine # NoLine)

\* the generateContent call ended with a rate-limit (429) error
RateLimited(r) == r.kind = "error" /\ (r.status = 429 \/ r.msg429)

\* C37: generateSpeech makes at most 3 synthesis attempts and never throws;
\* an attempt follows another only after a rate-limit error and after a wait
\* of (attempt number) x 1500 ms; any other error returns absent at once,
\* without a wait; three rate-limit errors return absent; and every call
\* returns.
C37_SpeechBoundedRetries ==
    /\ [](/\ Len(speechLog) <= 3
          /\ speechResult \in {"none", "data", "absent"}
          /\ speechResult # "none" <=> speechPc = "done"
          /\ \A k \in 1..(Len(speechLog) - 1) :
                 /\ RateLimited(speechLog[k])
                 /\ Len(speechWaits) >= k
                 /\ speechWaits[k] = k * 1500
          /\ (speechPc = "calling" /\ speechLog # << >>) =>
                 Len(speechWaits) = Len(speechLog)
          /\ \A k \in 1..Len(speechLog) :
                 ~RateLimited(speechLog[k]) =>
                     /\ k = Len(speechLog)
                     /\ Len(speechWaits) = k - 1
                     /\ speechPc = "done"
                     /\ speechResult = (IF speechLog[k].kind = "data"
                                        THEN "data" ELSE "absent")
          /\ (speechPc = "done" /\ RateLimited(speechLog[Len(speechLog)])) =>
                 (Len(speechLog) = 3 /\ speechResult = "absent"))
    /\ (speechPc # "idle") ~> (speechPc = "done")

C37_Witness ==
    /\ speechPc = "done"
    /\ speechResult = "absent"
    /\ Len(speechLog) = 3
    /\ \A k \in 1..3 : RateLimited(speechLog[k])
    /\ speechWaits = << 1500, 3000, 4500 >>

\* the scenes of a list as a bag
SceneBag(scenes) ==
    [x \in {scenes[k] : k \in 1..Len(scenes)} |->
        Cardinality({k \in 1..Len(scenes) : scenes[k] = x})]

\* list b is list a with the scenes at positions k and k + 1 exchanged
AdjacentSwap(a, b, k) ==
    /\ Len(b) = Len(a)
    /\ b[k] = a[k + 1]
    /\ b[k + 1] = a[k]
    /\ \A j \in 1..Len(a) : j \notin {k, k + 1} => b[j] = a[j]

\* C38: the scene list of the editor is never empty; a delete called with
\* one scene left changes nothing, and otherwise removes exactly the scene at
\* the index; a move exchanges the scene with its neighbour in the direction
\* of the move and changes nothing at the boundary of the list, so it keeps
\* the scenes and their number; an add appends one scene.
C38_EditorKeepsScenes ==
    /\ Len(cast) >= 1
    /\ lastEdit.op = "delete" =>
           IF Len(lastEdit.before) = 1 THEN cast = lastEdit.before
           ELSE /\ Len(cast) = Len(lastEdit.before) - 1
                /\ \A j \in 1..Len(cast) :
                       cast[j] = lastEdit.before[IF j <= lastEdit.index THEN j ELSE j + 1]
    /\ lastEdit.op = "move" =>
           /\ Len(cast) = Len(lastEdit.before)
           /\ SceneBag(cast) = SceneBag(lastEdit.before)
           /\ IF \/ (lastEdit.direction = "up" /\ lastEdit.index = 0)
                 \/ (lastEdit.direction = "down"
                       /\ lastEdit.index = Len(lastEdit.before) - 1)
              THEN cast = lastEdit.before
              ELSE AdjacentSwap(lastEdit.before, cast,
                                IF lastEdit.direction = "up" THEN lastEdit.index
                                ELSE lastEdit.index + 1)
    /\ lastEdit.op = "add" =>
           (Len(cast) >= 2 /\ cast[Len(cast)].characters = << >>)

\* a delete was called with one scene left, after the other scene had been
\* deleted
C38_Witness ==
    /\ lastEdit.op = "delete"
    /\ Len(lastEdit.before) = 1
    /\ cast = lastEdit.before
    /\ cast = << CastA[1] >>
    /\ pendingAdds = << >>

\* C39: in the description preview at most one audio item (a buffer source
\* or an utterance) sounds at any time, and the playing indicator names the
\* scene whose audio sounds: it is set exactly when an item sounds, to that
\* item's scene.
C39_PreviewOnePlaying ==
    /\ PreviewSounding <= 1
    /\ previewRef.playing => playingSceneId = previewRef.id
    /\ previewUtterance # "" => playingSceneId = previewUtterance
    /\ playingSceneId # "" =>
           \/ (previewRef.playing /\ previewRef.id = playingSceneId)
           \/ previewUtterance = playingSceneId

\* C40: whenever an audio file is loaded (selected, its duration lookup
\* done) the trim selection is well-formed, trimStart >= 0 and
\* trimStart < trimEnd, and no trimAudio call is made with an empty or
\* inverted range.
C40_TrimSelectionWellFormed ==
    /\ (customAudioFile # NoFile /\ pendingLookups = << >>) =>
           (trimStart >= 0 /\ trimStart < trimEnd)
    /\ trimCall # NoTrimCall =>
           (trimCall.start >= 0 /\ trimCall.start < trimCall.end)

====
